---- MODULE Spec2Model ----
(***************************************************************************)
(* A model of liblisp: the tree-walking evaluator of src/src/eval.rs       *)
(* (eval, eval_with_context, the special forms cond/set/progn/while and    *)
(* the built-ins add/sub/mul/div/list/head/tail/gt/lt/eq) as a machine     *)
(* that makes one step per recursive call or return of the evaluator.      *)
(*                                                                         *)
(* Text (atom and variable names) is a sequence of byte codes, so that the *)
(* byte-wise ordering of strings used by gt/lt is computed, not assumed.   *)
(* A persistent list (Cons/Nil) is a sequence: head is Head, tail is Tail, *)
(* l.cons(v) is <<v>> \o l.                                                *)
(*                                                                         *)
(* With it, the parser of src/src/expression.rs (Expression::try_from) and *)
(* the persistent list of src/src/util.rs with its iterator, each under a  *)
(* specification of its own: SpecParser and SpecList.                      *)
(***************************************************************************)
EXTENDS Integers, Sequences, FiniteSets, TLC

VARIABLES
    vartable,   \* Context.vartable: name -> value                (eval.rs:144)
    pc,         \* "idle" | "eval" | "ret" | "done" | "panic" | "parsed" | "list"
    exp,        \* the argument exp of the running eval_with_context call
    ret,        \* the Result the last finished call returned
    stack,      \* the suspended callers, innermost first
    prog,       \* the expression handed to the top-level call
    ctx0,       \* history: the Context as the top-level call received it
    ncalls,     \* history: top-level calls made so far
    last,       \* history: the step just taken and the frame it finished
    build,      \* "any" until an i32 overflow shows whether the build checks
                \* overflow ("checked": it panics) or not ("unchecked": it wraps)
    first,      \* history: outcome and Context of the first of two calls
                \* eval(exp) of one expression
    bytes,      \* the argument bytes of Expression::try_from
    index,      \* the local index of try_from, when try_from_ has returned
    parsed,     \* the Result of Expression::try_from
    clist,      \* a CommonList the caller keeps
    out,        \* the operation last applied to clist, and what it returned
    it,         \* a CommonListIterator: its field list
    items       \* history: what next() has returned, one sequence per iterator

evars == <<vartable, pc, exp, ret, stack, prog, ctx0, ncalls, last, build, first>>
pvars == <<bytes, index, parsed>>
lvars == <<clist, out, it, items>>
vars == <<vartable, pc, exp, ret, stack, prog, ctx0, ncalls, last, build, first,
          bytes, index, parsed, clist, out, it, items>>

-----------------------------------------------------------------------------
(* Text: byte strings.                                                     *)

S_cond  == <<99, 111, 110, 100>>
S_set   == <<115, 101, 116>>
S_progn == <<112, 114, 111, 103, 110>>
S_while == <<119, 104, 105, 108, 101>>
S_add   == <<97, 100, 100>>
S_sub   == <<115, 117, 98>>
S_mul   == <<109, 117, 108>>
S_div   == <<100, 105, 118>>
S_list  == <<108, 105, 115, 116>>
S_head  == <<104, 101, 97, 100>>
S_tail  == <<116, 97, 105, 108>>
S_gt    == <<103, 116>>
S_lt    == <<108, 116>>
S_eq    == <<101, 113>>
S_foo   == <<102, 111, 111>>
S_a     == <<97>>
S_b     == <<98>>
S_ab    == <<97, 98>>
S_B     == <<66>>
S_x     == <<42, 120, 42>>          \* "*x*"
S_i     == <<42, 105, 42>>          \* "*i*"
S_va    == <<42, 97, 42>>           \* "*a*"
S_xbare == <<120>>                  \* "x"

-----------------------------------------------------------------------------
(* Expression (the evaluator's input) and Type (its values).               *)

\* A variant is a record whose field k names it; the payload field has a
\* name of its own in each variant.
EInt(i)  == [k |-> "Int",  i |-> i]
EAtom(a) == [k |-> "Atom", a |-> a]
EVar(n)  == [k |-> "Var",  n |-> n]
EList(l) == [k |-> "ExpressionList", l |-> l]

TInt(i)  == [k |-> "Int",  i |-> i]
TAtom(a) == [k |-> "Atom", a |-> a]
TList(l) == [k |-> "List", l |-> l]
TVoid    == [k |-> "Void"]

Ok(t)    == [k |-> "Ok",    t |-> t]
Err(e)   == [k |-> "Err",   e |-> e]
Panic(m) == [k |-> "Panic", m |-> m]

EvalError == {"Unexpected", "TypeMismatch", "BadArrity", "NotImplementation",
              "NotFoundFunctionName", "DoHeadForNil",
              "UndefinedVariableReference", "EvaluatingNonAtomHeadList"}

-----------------------------------------------------------------------------
(* The persistent list operations the evaluator uses.                      *)

cons(l, tp) == <<tp>> \o l

RECURSIVE reverse_(_, _)
reverse_(old, new) ==
    IF old = <<>> THEN new ELSE reverse_(Tail(old), cons(new, Head(old)))

reverse(l) == reverse_(l, <<>>)

-----------------------------------------------------------------------------
(* i32 arithmetic.  An overflowing add / sub / mul panics in a build with  *)
(* overflow checks and wraps modulo 2^32 in a build without them; div by   *)
(* zero and MinI32 / -1 panic in every build.                              *)

MaxI32 == 2147483647
MinI32 == (-MaxI32) - 1

AddOverflows(a, b) == \/ b > 0 /\ a > MaxI32 - b
                      \/ b < 0 /\ a < MinI32 - b

WrapAdd(a, b) ==
    IF ~AddOverflows(a, b) THEN a + b
    ELSE IF b > 0 THEN ((a - MaxI32) - 1) + ((b - MaxI32) - 1)
    ELSE ((a + MaxI32) + 1) + ((b + MaxI32) + 1)

SubOverflows(a, b) == \/ b < 0 /\ a > MaxI32 + b
                      \/ b > 0 /\ a < MinI32 + b

WrapSub(a, b) ==
    IF ~SubOverflows(a, b) THEN a - b
    ELSE IF b < 0 THEN ((a - MaxI32) - 1) - ((b + MaxI32) + 1)
    ELSE ((a + MaxI32) + 1) - ((b - MaxI32) - 1)

\* |a| * |b| <= MaxI32 (2^31 when neg: the product is negative), for
\* a, b # 0, computed without leaving the 32-bit range
AbsProductAtMost(a, b, neg) ==
    IF a = MinI32 THEN neg /\ b \in {1, -1}
    ELSE IF b = MinI32 THEN neg /\ a \in {1, -1}
    ELSE LET aa == IF a < 0 THEN -a ELSE a
             bb == IF b < 0 THEN -b ELSE b
             up == IF neg /\ MaxI32 % bb = bb - 1 THEN 1 ELSE 0
         IN  aa - up <= MaxI32 \div bb

MulOverflows(a, b) ==
    /\ a # 0
    /\ b # 0
    /\ ~AbsProductAtMost(a, b, (a < 0) # (b < 0))

\* a * b modulo 2^32 as an i32, by 16-bit limbs so that no intermediate
\* value leaves the 32-bit range
WrapMul(a, b) ==
    LET al == a % 65536
        ah == a \div 65536
        bl == b % 65536
        bh == b \div 65536
        P  == al * (bl \div 256)
        Q  == al * (bl % 256)
        M  == ((P % 256) * 256) + Q
        L  == M % 65536
        H1 == (P \div 256) + (M \div 65536)
        hi == (((ah * bl) % 65536) + ((al * bh) % 65536) + H1) % 65536
    IN  ((IF hi >= 32768 THEN hi - 65536 ELSE hi) * 65536) + L

\* a / b of Rust: the quotient rounded toward zero (b # 0, not MinI32 / -1)
TruncDivPos(a, b) ==
    IF a >= 0 \/ a % b = 0 THEN a \div b ELSE (a \div b) + 1

TruncDiv(a, b) ==
    IF b > 0 THEN TruncDivPos(a, b)
    ELSE IF b = MinI32 THEN (IF a = MinI32 THEN 1 ELSE 0)
    ELSE -TruncDivPos(a, -b)

-----------------------------------------------------------------------------
(* The built-ins: each takes the list of evaluated arguments.              *)

len(l) == Len(l)

list(l) == Ok(TList(l))

head(l) ==
    IF len(l) # 1 THEN Err("BadArrity")
    ELSE LET a == Head(l)
         IN  IF a.k = "List"
             THEN (IF a.l # <<>> THEN Ok(Head(a.l)) ELSE Err("DoHeadForNil"))
             ELSE Err("TypeMismatch")

\* a tail that refuses the empty list as head does
tail_NilIsError(l) ==
    IF len(l) # 1 THEN Err("BadArrity")
    ELSE LET a == Head(l)
         IN  IF a.k = "List"
             THEN (IF a.l # <<>> THEN Ok(TList(Tail(a.l)))
                   ELSE Err("DoHeadForNil"))
             ELSE Err("TypeMismatch")

tail(l) ==
    IF len(l) # 1 THEN Err("BadArrity")
    ELSE LET a == Head(l)
         IN  IF a.k = "List"
             THEN Ok(TList(IF a.l = <<>> THEN <<>> ELSE Tail(a.l)))
             ELSE Err("TypeMismatch")

\* a division that rounds toward minus infinity
calc_result_FloorDiv(tp, aint, bint) ==
    CASE tp = "Add" -> IF AddOverflows(aint, bint)
                       THEN {Panic("overflow"), Ok(TInt(WrapAdd(aint, bint)))}
                       ELSE {Ok(TInt(aint + bint))}
      [] tp = "Sub" -> IF SubOverflows(aint, bint)
                       THEN {Panic("overflow"), Ok(TInt(WrapSub(aint, bint)))}
                       ELSE {Ok(TInt(aint - bint))}
      [] tp = "Mul" -> IF MulOverflows(aint, bint)
                       THEN {Panic("overflow"), Ok(TInt(WrapMul(aint, bint)))}
                       ELSE {Ok(TInt(aint * bint))}
      [] tp = "Div" -> IF bint = 0 THEN {Panic("divide by zero")}
                       ELSE IF aint = MinI32 /\ bint = -1
                            THEN {Panic("overflow")}
                       ELSE IF bint = MinI32
                            THEN {Ok(TInt(IF aint = MinI32 THEN 1
                                          ELSE IF aint > 0 THEN -1 ELSE 0))}
                       ELSE IF bint < 0
                            THEN {Ok(TInt((IF aint = MinI32 THEN MaxI32 ELSE -aint)
                                          \div (-bint)))}
                       ELSE {Ok(TInt(aint \div bint))}

\* the outcomes of aint <op> bint on i32
calc_result(tp, aint, bint) ==
    CASE tp = "Add" -> IF AddOverflows(aint, bint)
                       THEN {Panic("overflow"), Ok(TInt(WrapAdd(aint, bint)))}
                       ELSE {Ok(TInt(aint + bint))}
      [] tp = "Sub" -> IF SubOverflows(aint, bint)
                       THEN {Panic("overflow"), Ok(TInt(WrapSub(aint, bint)))}
                       ELSE {Ok(TInt(aint - bint))}
      [] tp = "Mul" -> IF MulOverflows(aint, bint)
                       THEN {Panic("overflow"), Ok(TInt(WrapMul(aint, bint)))}
                       ELSE {Ok(TInt(aint * bint))}
      [] tp = "Div" -> IF bint = 0 THEN {Panic("divide by zero")}
                       ELSE IF aint = MinI32 /\ bint = -1
                            THEN {Panic("overflow")}
                       ELSE {Ok(TInt(TruncDiv(aint, bint)))}

\* an arith_op that reports a zero divisor as an EvalError
arith_op_GuardsZero(l, tp) ==
    IF len(l) # 2 THEN {Err("BadArrity")}
    ELSE LET a == l[1]
             b == l[2]
         IN  IF a.k # "Int" THEN {Err("TypeMismatch")}
             ELSE IF b.k # "Int" THEN {Err("TypeMismatch")}
             ELSE IF tp = "Div" /\ b.i = 0 THEN {Err("Unexpected")}
             ELSE calc_result(tp, a.i, b.i)

arith_op(l, tp) ==
    IF len(l) # 2 THEN {Err("BadArrity")}
    ELSE LET a == l[1]
             b == l[2]
         IN  IF a.k # "Int" THEN {Err("TypeMismatch")}
             ELSE IF b.k # "Int" THEN {Err("TypeMismatch")}
             ELSE calc_result(tp, a.i, b.i)

add(l) == arith_op(l, "Add")
sub(l) == arith_op(l, "Sub")
mul(l) == arith_op(l, "Mul")
div(l) == arith_op(l, "Div")

\* the order of String: byte by byte, a proper prefix first
RECURSIVE StrLess(_, _)
StrLess(s, t) ==
    IF t = <<>> THEN FALSE
    ELSE IF s = <<>> THEN TRUE
    ELSE IF Head(s) # Head(t) THEN Head(s) < Head(t)
    ELSE StrLess(Tail(s), Tail(t))

\* a gt that also holds of equal arguments
gt_OrEqual(l) ==
    IF len(l) # 2 THEN Err("BadArrity")
    ELSE LET a == l[1]
             b == l[2]
         IN  IF a.k = "Int"
             THEN (IF b.k = "Int"
                   THEN Ok(TInt(IF a.i >= b.i THEN 1 ELSE 0))
                   ELSE Err("TypeMismatch"))
             ELSE IF a.k = "Atom"
             THEN (IF b.k = "Atom"
                   THEN Ok(TInt(IF ~StrLess(a.a, b.a) THEN 1 ELSE 0))
                   ELSE Err("TypeMismatch"))
             ELSE Err("TypeMismatch")

gt(l) ==
    IF len(l) # 2 THEN Err("BadArrity")
    ELSE LET a == l[1]
             b == l[2]
         IN  IF a.k = "Int"
             THEN (IF b.k = "Int"
                   THEN Ok(TInt(IF a.i > b.i THEN 1 ELSE 0))
                   ELSE Err("TypeMismatch"))
             ELSE IF a.k = "Atom"
             THEN (IF b.k = "Atom"
                   THEN Ok(TInt(IF StrLess(b.a, a.a) THEN 1 ELSE 0))
                   ELSE Err("TypeMismatch"))
             ELSE Err("TypeMismatch")

lt(l) ==
    IF len(l) # 2 THEN Err("BadArrity")
    ELSE LET a == l[1]
             b == l[2]
         IN  IF a.k = "Int"
             THEN (IF b.k = "Int"
                   THEN Ok(TInt(IF a.i < b.i THEN 1 ELSE 0))
                   ELSE Err("TypeMismatch"))
             ELSE IF a.k = "Atom"
             THEN (IF b.k = "Atom"
                   THEN Ok(TInt(IF StrLess(a.a, b.a) THEN 1 ELSE 0))
                   ELSE Err("TypeMismatch"))
             ELSE Err("TypeMismatch")

eq(l) ==
    LET res1 == gt(l)
        res2 == lt(l)
    IN  IF res1.k = "Err" THEN res1
        ELSE IF res2.k = "Err" THEN res2
        ELSE IF res1 = Ok(TInt(0)) /\ res2 = Ok(TInt(0)) THEN Ok(TInt(1))
        ELSE Ok(TInt(0))

\* the names of the two dispatch tables
embeded_fn_names  == {S_add, S_sub, S_mul, S_div, S_list, S_head, S_tail,
                      S_gt, S_lt, S_eq}
embeded_fn_names2 == {S_cond, S_set, S_progn, S_while}

\* embeded_fn_table.get(fun_name) applied to l: the possible outcomes
embeded_fn_table(fun_name, l) ==
    CASE fun_name = S_add  -> add(l)
      [] fun_name = S_sub  -> sub(l)
      [] fun_name = S_mul  -> mul(l)
      [] fun_name = S_div  -> div(l)
      [] fun_name = S_list -> {list(l)}
      [] fun_name = S_head -> {head(l)}
      [] fun_name = S_tail -> {tail(l)}
      [] fun_name = S_gt   -> {gt(l)}
      [] fun_name = S_lt   -> {lt(l)}
      [] fun_name = S_eq   -> {eq(l)}

-----------------------------------------------------------------------------
(* The expressions evaluated.                                              *)

MaxN     == 3      \* the counting loops run with a bound of 0 .. MaxN
MaxCalls == 2      \* top-level calls made on one Context

Call(fun_name, args) == EList(<<EAtom(fun_name)>> \o args)

Set(name, e) == Call(S_set, <<EVar(name), e>>)

\* (progn (set *i* 0) (set *a* 0)
\*        (while (lt *i* N) (progn (set *a* (add *i* *a*))
\*                                 (set *i* (add *i* 1)))))
CountCond(n) == Call(S_lt, <<EVar(S_i), EInt(n)>>)
CountBody ==
    Call(S_progn, <<Set(S_va, Call(S_add, <<EVar(S_i), EVar(S_va)>>)),
                    Set(S_i, Call(S_add, <<EVar(S_i), EInt(1)>>))>>)
CountLoop(n) == Call(S_while, <<CountCond(n), CountBody>>)
CountForms(n) == <<Set(S_i, EInt(0)), Set(S_va, EInt(0)), CountLoop(n)>>
LoopProg(n)  == Call(S_progn, CountForms(n))                      \* tests/lib.rs
CountProg(n) == Call(S_progn, CountForms(n) \o <<EVar(S_va)>>)    \* while_tests

IntLits == {MinI32, -7, -1, 0, 3, MaxI32}

ArgExprs ==
    {EInt(i) : i \in IntLits}
    \cup {EAtom(S_a), EAtom(S_ab), EAtom(S_B)}
    \cup {Call(S_list, <<>>), Call(S_list, <<EInt(1), EAtom(S_a)>>)}

SetX == Set(S_x, EInt(1))
SetA == Set(S_va, EInt(2))

BuiltinProgs ==
    {Call(f, <<x, y>>) : f \in embeded_fn_names \ {S_head, S_tail, S_list},
                         x \in ArgExprs, y \in ArgExprs}
    \cup {Call(f, a) : f \in embeded_fn_names,
                       a \in {<<>>, <<EInt(1)>>, <<EInt(1), EInt(2)>>,
                              <<EInt(3), EInt(2), EInt(1)>>, <<EAtom(S_a)>>,
                              <<EAtom(S_a), EInt(1), EAtom(S_a)>>}}
    \cup {Call(f, <<x>>) : f \in {S_head, S_tail, S_list}, x \in ArgExprs}
    \cup {Call(S_list, <<x, y, EInt(3)>>) : x \in ArgExprs, y \in ArgExprs}
    \cup {Call(f, <<Call(S_list, <<x>>)>>) : f \in {S_head, S_tail},
                                               x \in ArgExprs}
    \cup {Call(f, <<Call(S_list, <<x, y, Call(S_list, <<x>>)>>)>>) :
              f \in {S_head, S_tail}, x \in ArgExprs, y \in {EInt(7), EAtom(S_b)}}
    \cup {Call(S_add, <<Call(S_add, <<Call(S_sub, <<EInt(1), EInt(2)>>),
                                      EInt(3)>>), EInt(4)>>),
          Call(S_add, <<SetX>>),
          Call(S_add, <<SetX, EVar(S_x)>>),
          Call(S_add, <<EVar(S_x), SetX>>),
          Call(S_list, <<SetX, Set(S_x, EInt(2)), EVar(S_x)>>),
          Call(S_list, <<SetX, Call(S_foo, <<>>), SetA>>)}

HeadProgs ==
    {EList(<<>>),
     EList(<<EInt(1), EInt(2)>>),
     EList(<<EInt(1), SetX>>),
     EList(<<EVar(S_x), SetX>>),
     EList(<<Call(S_add, <<EInt(1), EInt(2)>>), SetX>>),
     EList(<<EList(<<>>)>>),
     Call(S_foo, <<>>),
     Call(S_foo, <<SetX>>),
     Call(S_xbare, <<EInt(1), SetX>>)}

CondProgs ==
    {Call(S_cond, <<c, SetX, SetA>>) : c \in ArgExprs}
    \cup {Call(S_cond, a) : a \in {<<>>, <<SetX>>, <<SetX, SetA>>,
                                   <<EInt(1), SetX, SetA, SetX>>}}
    \cup {Call(S_cond, <<Call(S_eq, <<EInt(1), EInt(0)>>), SetX, EInt(0)>>),
          Call(S_cond, <<Call(S_eq, <<EInt(3), EInt(2)>>), EInt(10),
                         Call(S_mul, <<EInt(20), EInt(10)>>)>>),
          Call(S_cond, <<Call(S_eq, <<EInt(3), EInt(3)>>),
                         Call(S_div, <<EInt(10), EInt(2)>>), EInt(20)>>),
          Call(S_cond, <<EVar(S_x), Set(S_x, EInt(0)), SetX>>),
          Call(S_cond, <<Set(S_i, EInt(0)), SetX, SetA>>),
          Call(S_cond, <<Call(S_foo, <<>>), SetX, SetA>>),
          Call(S_cond, <<EInt(1), Call(S_foo, <<>>), SetA>>),
          Call(S_progn, <<Call(S_cond, <<EInt(1), Set(S_x, EInt(5)), EInt(0)>>),
                          EVar(S_x)>>)}

SetProgs ==
    {Set(S_x, e) : e \in ArgExprs}
    \cup {Call(S_set, a) : a \in {<<>>, <<EVar(S_x)>>, <<SetX>>,
                                  <<EVar(S_x), EInt(1), EInt(2)>>,
                                  <<EVar(S_x), SetA, Call(S_foo, <<>>)>>}}
    \cup {Call(S_set, <<v, e>>) : v \in {EInt(5), EAtom(S_xbare), EList(<<>>)},
                                  e \in {EInt(1), SetX, Call(S_foo, <<>>)}}
    \cup {Set(S_x, EVar(S_va)),
          Set(S_x, Call(S_add, <<EVar(S_x), EInt(1)>>)),
          Set(S_va, SetX),
          Call(S_progn, <<SetX, Set(S_x, EInt(2)), EVar(S_x)>>),
          Call(S_progn, <<SetX, SetA, EVar(S_x)>>),
          EVar(S_x), EVar(S_va), EVar(S_i), EVar(S_xbare)}

PrognProgs ==
    {Call(S_progn, <<>>),
     Call(S_progn, <<EInt(1)>>),
     Call(S_progn, <<EInt(1), EAtom(S_a)>>),
     Call(S_progn, <<Set(S_va, EInt(10)),
                     Call(S_add, <<EVar(S_va),
                                   Call(S_add, <<EVar(S_va), EInt(20)>>)>>)>>),
     Call(S_progn, <<Call(S_foo, <<>>), SetX>>),
     Call(S_progn, <<SetX, Call(S_foo, <<>>), SetA>>)}

WhileProgs ==
    {LoopProg(n) : n \in 0 .. MaxN}
    \cup {CountProg(n) : n \in 0 .. MaxN}
    \cup {Call(S_while, <<c, SetX>>) : c \in ArgExprs \ {EInt(i) : i \in IntLits \ {0}}}
    \cup {Call(S_while, a) : a \in {<<>>, <<EInt(0)>>, <<EInt(0), SetX, SetA>>}}
    \cup {Call(S_while, <<EVar(S_x), Set(S_x, EInt(0))>>),
          Call(S_while, <<Call(S_foo, <<>>), SetX>>),
          Call(S_progn, <<SetX, Call(S_while, <<EVar(S_x),
                                   Call(S_progn, <<Set(S_x, EInt(0)), SetA>>)>>)>>),
          Call(S_progn, <<SetX, Call(S_while, <<EVar(S_x),
                                   Call(S_progn, <<Set(S_x, EAtom(S_a)), SetA>>)>>)>>),
          Call(S_progn, <<SetX, Call(S_while, <<EVar(S_x), Call(S_foo, <<>>)>>)>>),
          Call(S_progn, <<Set(S_i, EInt(0)),
              Call(S_while, <<CountCond(2),
                  Call(S_progn, <<Set(S_x, EInt(1)),
                      Call(S_while, <<EVar(S_x), Set(S_x, EInt(0))>>),
                      Set(S_i, Call(S_add, <<EVar(S_i), EInt(1)>>))>>)>>)>>)}

\* what eval is called with
Programs == BuiltinProgs \cup HeadProgs \cup CondProgs \cup SetProgs
            \cup PrognProgs \cup WhileProgs

\* what eval_with_context is called with on a Context that is kept
CtxPrograms == HeadProgs \cup CondProgs \cup SetProgs \cup PrognProgs
               \cup WhileProgs

-----------------------------------------------------------------------------
(* The machine.  A frame is a call of a special form, or of                *)
(* eval_with_context evaluating a built-in's arguments, that waits for the *)
(* eval_with_context call it made.  Its fields are the locals of that      *)
(* call; evald, nc and nb are history (the expressions the call has had    *)
(* evaluated, the number of condition and body evaluations of a loop).     *)

NoExp   == [k |-> "none"]
NoRet   == [k |-> "none"]
NoFrame == [f |-> "none"]

\* history: the step taken, the frame it finished (or NoFrame), the
\* expression it dispatched on (or NoExp) and the Result it received from
\* the call that had just returned (or NoRet)
Step(a, fr) == [a |-> a, fr |-> fr, e |-> exp, got |-> ret]

Context_new == <<>>

\* context.vartable.get(var)
\* a lookup that yields Int(0) for a name that is not bound
vartable_get_Default(table, var) ==
    IF var \in DOMAIN table THEN Ok(table[var]) ELSE Ok(TInt(0))

vartable_get(table, var) ==
    IF var \in DOMAIN table THEN Ok(table[var])
    ELSE Err("UndefinedVariableReference")

\* an insert into a table that keeps no other name
vartable_insert_Forgets(table, varstr, val) == (varstr :> val)

\* context.vartable.insert(varstr, val)
vartable_insert(table, varstr, val) == (varstr :> val) @@ table

\* k (k - 1) / 2, for k up to 65536 within 32 bits
Tri(k) == IF k % 2 = 0 THEN (k \div 2) * (k - 1) ELSE k * ((k - 1) \div 2)

\* eval(CountProg(n)) at the head of its loop after k >= 1 rounds: the
\* while waits for its condition inside the progn, *i* is k and *a* is
\* 0 + 1 + ... + (k - 1).  Every round takes LoopHead(n, k) to
\* LoopHead(n, k + 1) (C2_LoopHead below), so these states are reached from
\* the fresh call for every k <= n.
LoopHead(n, k) ==
    [vartable |-> (S_i :> TInt(k)) @@ (S_va :> TInt(Tri(k))),
     pc       |-> "eval",
     exp      |-> CountCond(n),
     ret      |-> NoRet,
     stack    |-> <<[f |-> "wloop", cond |-> CountCond(n), body |-> CountBody,
                     at |-> "cond", nc |-> k + 1, nb |-> k],
                    [f |-> "progn", l |-> CountForms(n) \o <<EVar(S_va)>>,
                     iter |-> <<EVar(S_va)>>, evald |-> CountForms(n)]>>,
     prog     |-> CountProg(n),
     ctx0     |-> Context_new,
     ncalls   |-> 1,
     last     |-> [a |-> "wloop_loop", fr |-> NoFrame, e |-> NoExp,
                   got |-> Ok(TInt(k))]]

\* the long counting runs, taken up at round k: <<n, k>>
LongRuns == {<<65536, 65535>>, <<65537, 65535>>}

InitFresh ==
    /\ vartable = Context_new
    /\ pc = "idle"
    /\ exp = NoExp
    /\ ret = NoRet
    /\ stack = <<>>
    /\ prog = NoExp
    /\ ctx0 = Context_new
    /\ ncalls = 0
    /\ last = [a |-> "Init", fr |-> NoFrame, e |-> NoExp, got |-> NoRet]

InitLong ==
    \E r \in LongRuns :
        LET h == LoopHead(r[1], r[2])
        IN  /\ vartable = h.vartable
            /\ pc = h.pc
            /\ exp = h.exp
            /\ ret = h.ret
            /\ stack = h.stack
            /\ prog = h.prog
            /\ ctx0 = h.ctx0
            /\ ncalls = h.ncalls
            /\ last = h.last

\* nothing has been compared, parsed or built yet
InitRest ==
    /\ build = "any"
    /\ first = NoRet
    /\ bytes = <<>>
    /\ index = 0
    /\ parsed = NoRet
    /\ clist = <<>>
    /\ out = [op |-> "none"]
    /\ it = [k |-> "none"]
    /\ items = <<>>

Init == (InitFresh \/ InitLong) /\ InitRest

\* eval(exp): a fresh Context, so nothing of an earlier call is left
eval(p) ==
    /\ pc = "idle"
    /\ vartable' = Context_new
    /\ ctx0' = Context_new
    /\ pc' = "eval"
    /\ exp' = p
    /\ prog' = p
    /\ ret' = NoRet
    /\ stack' = <<>>
    /\ ncalls' = ncalls + 1
    /\ last' = [a |-> "eval", fr |-> NoFrame, e |-> NoExp, got |-> NoRet]
    /\ UNCHANGED <<build, first, pvars, lvars>>

\* a second call eval(exp) of the expression just evaluated, in the same
\* build; the outcome and the Context of the first call are kept in first
eval_same ==
    /\ pc = "done"
    /\ prog \in Programs
    /\ ncalls = 1
    /\ ctx0 = Context_new
    /\ first = NoRet
    /\ first' = [k |-> "first", r |-> ret, table |-> vartable]
    /\ vartable' = Context_new
    /\ ctx0' = Context_new
    /\ pc' = "eval"
    /\ exp' = prog
    /\ ret' = NoRet
    /\ stack' = <<>>
    /\ ncalls' = ncalls + 1
    /\ last' = [a |-> "eval_same", fr |-> NoFrame, e |-> NoExp, got |-> NoRet]
    /\ UNCHANGED <<prog, build, pvars, lvars>>

\* eval_with_context(exp, context) by a caller that kept the Context
eval_with_context(p) ==
    /\ pc = "done"
    /\ ncalls < MaxCalls
    /\ first = NoRet
    /\ ctx0' = vartable
    /\ pc' = "eval"
    /\ exp' = p
    /\ prog' = p
    /\ ret' = NoRet
    /\ stack' = <<>>
    /\ ncalls' = ncalls + 1
    /\ last' = [a |-> "eval_with_context", fr |-> NoFrame, e |-> NoExp,
                 got |-> NoRet]
    /\ UNCHANGED <<vartable, build, first, pvars, lvars>>

\* the running call returns r (a panic ends the program)
Return(r, a, fr, stk) ==
    /\ pc' = IF r.k = "Panic" THEN "panic" ELSE "ret"
    /\ ret' = r
    /\ exp' = NoExp
    /\ stack' = IF r.k = "Panic" THEN <<>> ELSE stk
    /\ last' = Step(a, fr)
    /\ UNCHANGED <<prog, ctx0, ncalls, first, pvars, lvars>>

\* the running call calls eval_with_context(e, context) and waits in fr
CallEval(e, a, fr, stk) ==
    /\ pc' = "eval"
    /\ exp' = e
    /\ ret' = NoRet
    /\ stack' = <<fr>> \o stk
    /\ last' = Step(a, NoFrame)
    /\ UNCHANGED <<prog, ctx0, ncalls, first, pvars, lvars>>

Evaluating(kind) == pc = "eval" /\ exp.k = kind

\* the list under evaluation is headed by the atom fun_name
Applying(names) ==
    /\ Evaluating("ExpressionList")
    /\ exp.l # <<>>
    /\ Head(exp.l).k = "Atom"
    /\ Head(exp.l).a \in names

Returned(f) ==
    /\ pc = "ret"
    /\ stack # <<>>
    /\ Head(stack).f = f
    /\ ret.k = "Ok"

eval_Int ==
    /\ Evaluating("Int")
    /\ Return(Ok(TInt(exp.i)), "eval_Int", NoFrame, stack)
    /\ UNCHANGED <<vartable, build>>

eval_Atom ==
    /\ Evaluating("Atom")
    /\ Return(Ok(TAtom(exp.a)), "eval_Atom", NoFrame, stack)
    /\ UNCHANGED <<vartable, build>>

eval_Var ==
    /\ Evaluating("Var")
    /\ Return(vartable_get(vartable, exp.n), "eval_Var", NoFrame, stack)
    /\ UNCHANGED <<vartable, build>>

\* clist.head() is None
eval_Unexpected ==
    /\ Evaluating("ExpressionList")
    /\ exp.l = <<>>
    /\ Return(Err("Unexpected"), "eval_Unexpected", NoFrame, stack)
    /\ UNCHANGED <<vartable, build>>

eval_NonAtomHead ==
    /\ Evaluating("ExpressionList")
    /\ exp.l # <<>>
    /\ Head(exp.l).k # "Atom"
    /\ Return(Err("EvaluatingNonAtomHeadList"), "eval_NonAtomHead", NoFrame, stack)
    /\ UNCHANGED <<vartable, build>>

\* an unknown function name reported as NotImplementation
eval_NotFound_NotImplementation ==
    /\ Evaluating("ExpressionList")
    /\ exp.l # <<>>
    /\ Head(exp.l).k = "Atom"
    /\ Head(exp.l).a \notin embeded_fn_names2
    /\ Head(exp.l).a \notin embeded_fn_names
    /\ Return(Err("NotImplementation"), "eval_NotFound", NoFrame, stack)
    /\ UNCHANGED <<vartable, build>>

eval_NotFound ==
    /\ Evaluating("ExpressionList")
    /\ exp.l # <<>>
    /\ Head(exp.l).k = "Atom"
    /\ Head(exp.l).a \notin embeded_fn_names2
    /\ Head(exp.l).a \notin embeded_fn_names
    /\ Return(Err("NotFoundFunctionName"), "eval_NotFound", NoFrame, stack)
    /\ UNCHANGED <<vartable, build>>

\* a progn that goes on to its next element after an Err
try_Err_PrognGoesOn ==
    /\ pc = "ret"
    /\ stack # <<>>
    /\ ret.k = "Err"
    /\ LET fr == Head(stack)
       IN  IF fr.f = "progn" /\ fr.iter # <<>>
           THEN CallEval(Head(fr.iter), "progn_next",
                         [fr EXCEPT !.iter = Tail(@),
                                    !.evald = Append(@, Head(fr.iter))],
                         Tail(stack))
           ELSE Return(ret, "try_Err", fr, Tail(stack))
    /\ UNCHANGED <<vartable, build>>

\* the ? operator: an Err of the awaited call is returned by the caller
try_Err ==
    /\ pc = "ret"
    /\ stack # <<>>
    /\ ret.k = "Err"
    /\ Return(ret, "try_Err", Head(stack), Tail(stack))
    /\ UNCHANGED <<vartable, build>>

\* the top-level call has returned to its caller
eval_done ==
    /\ pc = "ret"
    /\ stack = <<>>
    /\ pc' = "done"
    /\ last' = Step("eval_done", NoFrame)
    /\ UNCHANGED <<vartable, exp, ret, stack, prog, ctx0, ncalls, build, first,
                   pvars, lvars>>

-----------------------------------------------------------------------------
(* while                                                                   *)

\* what the loop does with the evaluated condition
\* a loop that takes a condition that is no Int for false
wloop_test_NoTypeCheck(evaluated_cond) ==
    IF evaluated_cond.k = "Int" /\ evaluated_cond.i # 0
    THEN [do |-> "body", r |-> NoRet]
    ELSE [do |-> "return", r |-> Ok(TInt(0))]

wloop_test(evaluated_cond) ==
    IF evaluated_cond.k = "Int"
    THEN (IF evaluated_cond.i = 0
          THEN [do |-> "return", r |-> Ok(TInt(0))]
          ELSE [do |-> "body", r |-> NoRet])
    ELSE [do |-> "return", r |-> Err("TypeMismatch")]

wloop_call ==
    /\ Applying({S_while})
    /\ LET l == Tail(exp.l)
       IN  IF len(l) # 2
           THEN Return(Err("BadArrity"), "wloop_BadArrity", NoFrame, stack)
           ELSE CallEval(l[1], "wloop_call",
                         [f |-> "wloop", cond |-> l[1], body |-> l[2],
                          at |-> "cond", nc |-> 1, nb |-> 0], stack)
    /\ UNCHANGED <<vartable, build>>

wloop_cond ==
    /\ Returned("wloop")
    /\ Head(stack).at = "cond"
    /\ LET fr == Head(stack)
           t  == wloop_test(ret.t)
       IN  IF t.do = "body"
           THEN CallEval(fr.body, "wloop_body",
                         [fr EXCEPT !.at = "body", !.nb = @ + 1], Tail(stack))
           ELSE Return(t.r, "wloop_return", fr, Tail(stack))
    /\ UNCHANGED <<vartable, build>>

wloop_loop ==
    /\ Returned("wloop")
    /\ Head(stack).at = "body"
    /\ LET fr == Head(stack)
       IN  CallEval(fr.cond, "wloop_loop",
                    [fr EXCEPT !.at = "cond", !.nc = @ + 1], Tail(stack))
    /\ UNCHANGED <<vartable, build>>

-----------------------------------------------------------------------------
(* progn                                                                   *)

\* a progn without the check of the count: the dummy of the fold is returned
progn_call_NoArityCheck ==
    /\ Applying({S_progn})
    /\ LET l == Tail(exp.l)
       IN  IF len(l) = 0
           THEN Return(Ok(TInt(0)), "progn_BadArrity", NoFrame, stack)
           ELSE CallEval(Head(l), "progn_call",
                         [f |-> "progn", l |-> l, iter |-> Tail(l),
                          evald |-> <<Head(l)>>], stack)
    /\ UNCHANGED <<vartable, build>>

progn_call ==
    /\ Applying({S_progn})
    /\ LET l == Tail(exp.l)
       IN  IF len(l) = 0
           THEN Return(Err("BadArrity"), "progn_BadArrity", NoFrame, stack)
           ELSE CallEval(Head(l), "progn_call",
                         [f |-> "progn", l |-> l, iter |-> Tail(l),
                          evald |-> <<Head(l)>>], stack)
    /\ UNCHANGED <<vartable, build>>

\* one round of the try_fold: the element has been evaluated
progn_next ==
    /\ Returned("progn")
    /\ LET fr == Head(stack)
       IN  IF fr.iter = <<>>
           THEN Return(ret, "progn_return", fr, Tail(stack))
           ELSE CallEval(Head(fr.iter), "progn_next",
                         [fr EXCEPT !.iter = Tail(@),
                                    !.evald = Append(@, Head(fr.iter))],
                         Tail(stack))
    /\ UNCHANGED <<vartable, build>>

-----------------------------------------------------------------------------
(* set                                                                     *)

\* a set that looks at var before it evaluates the value
set_call_VarFirst ==
    /\ Applying({S_set})
    /\ LET l == Tail(exp.l)
       IN  IF len(l) # 2
           THEN Return(Err("BadArrity"), "set_BadArrity", NoFrame, stack)
           ELSE IF l[1].k # "Var"
           THEN Return(Err("TypeMismatch"), "set_TypeMismatch", NoFrame, stack)
           ELSE CallEval(l[2], "set_call",
                         [f |-> "set", var |-> l[1], evald |-> <<l[2]>>], stack)
    /\ UNCHANGED <<vartable, build>>

set_call ==
    /\ Applying({S_set})
    /\ LET l == Tail(exp.l)
       IN  IF len(l) # 2
           THEN Return(Err("BadArrity"), "set_BadArrity", NoFrame, stack)
           ELSE CallEval(l[2], "set_call",
                         [f |-> "set", var |-> l[1], evald |-> <<l[2]>>], stack)
    /\ UNCHANGED <<vartable, build>>

\* a set that returns the value and binds nothing
set_insert_NoBind(var, val, table) ==
    IF var.k = "Var"
    THEN [r |-> Ok(val), table |-> table]
    ELSE [r |-> Err("TypeMismatch"), table |-> table]

\* val has been evaluated: var must be a Var
set_insert(var, val, table) ==
    IF var.k = "Var"
    THEN [r |-> Ok(val), table |-> vartable_insert(table, var.n, val)]
    ELSE [r |-> Err("TypeMismatch"), table |-> table]

set_return ==
    /\ Returned("set")
    /\ LET fr == Head(stack)
           s  == set_insert(fr.var, ret.t, vartable)
       IN  /\ vartable' = s.table
           /\ Return(s.r, "set_return", fr, Tail(stack))
    /\ UNCHANGED build

-----------------------------------------------------------------------------
(* cond                                                                    *)

cond_call ==
    /\ Applying({S_cond})
    /\ LET l == Tail(exp.l)
       IN  IF len(l) # 3
           THEN Return(Err("BadArrity"), "cond_BadArrity", NoFrame, stack)
           ELSE CallEval(l[1], "cond_call",
                         [f |-> "cond", cond |-> l[1], ok |-> l[2], ng |-> l[3],
                          at |-> "cond", r |-> NoRet, evald |-> <<l[1]>>],
                         stack)
    /\ UNCHANGED <<vartable, build>>

\* the branches taken the other way round
cond_match_Swapped(r) ==
    IF r.k = "Int" THEN (IF r.i = 0 THEN "ok" ELSE "ng") ELSE "none"

\* match r: the branch to evaluate, or "none"
cond_match(r) ==
    IF r.k = "Int" THEN (IF r.i = 0 THEN "ng" ELSE "ok") ELSE "none"

cond_test ==
    /\ Returned("cond")
    /\ Head(stack).at = "cond"
    /\ LET fr == Head(stack)
           m  == cond_match(ret.t)
           e  == IF m = "ng" THEN fr.ng ELSE fr.ok
       IN  IF m = "none"
           THEN Return(Err("TypeMismatch"), "cond_TypeMismatch",
                       [fr EXCEPT !.r = ret.t], Tail(stack))
           ELSE CallEval(e, "cond_test",
                         [fr EXCEPT !.at = m, !.r = ret.t,
                                    !.evald = Append(@, e)],
                         Tail(stack))
    /\ UNCHANGED <<vartable, build>>

\* return eval_with_context(ng / ok, context)
cond_return ==
    /\ Returned("cond")
    /\ Head(stack).at \in {"ok", "ng"}
    /\ Return(ret, "cond_return", Head(stack), Tail(stack))
    /\ UNCHANGED <<vartable, build>>

-----------------------------------------------------------------------------
(* a built-in: the arguments are evaluated, then the function is applied   *)

\* the function applied to the arguments as they were consed
apply_fn_NoReverse(fun_name, evaluated) == embeded_fn_table(fun_name, evaluated)

\* The outcomes of one application in this build, each with what it shows of
\* the build: where i32 arithmetic overflows, a build with overflow checks
\* panics and one without wraps, the same way at every overflow of a run.
\* outcomes of a build whose overflow checks change from one operation to
\* the next
built_AnyBuild(outs) == {[r |-> x, build |-> build] : x \in outs}

built(outs) ==
    IF Cardinality(outs) = 1
    THEN {[r |-> x, build |-> build] : x \in outs}
    ELSE {[r |-> x, build |-> IF x.k = "Panic" THEN "checked" ELSE "unchecked"] :
             x \in {y \in outs : \/ build = "any"
                                 \/ (y.k = "Panic") = (build = "checked")}}

\* f(evaluated.reverse()), for the arguments consed in evaluation order
apply_fn(fun_name, evaluated) == embeded_fn_table(fun_name, reverse(evaluated))

\* the first element the iterator over the arguments yields
args_first(args) == Head(args)

embeded_call ==
    /\ Applying(embeded_fn_names \ embeded_fn_names2)
    /\ LET fun_name == Head(exp.l).a
           args     == Tail(exp.l)
       IN  IF args = <<>>
           THEN \E b \in built(apply_fn(fun_name, <<>>)) :
                    /\ build' = b.build
                    /\ Return(b.r, "embeded_apply",
                              [f |-> "embeded", fun_name |-> fun_name,
                               args |-> args, iter |-> <<>>, acc |-> <<>>,
                               evald |-> <<>>], stack)
           ELSE /\ CallEval(args_first(args), "embeded_call",
                            [f |-> "embeded", fun_name |-> fun_name,
                             args |-> args, iter |-> Tail(args), acc |-> <<>>,
                             evald |-> <<args_first(args)>>], stack)
                /\ UNCHANGED build
    /\ UNCHANGED vartable

\* one round of the try_fold: res has been evaluated
embeded_next ==
    /\ Returned("embeded")
    /\ LET fr  == Head(stack)
           acc == cons(fr.acc, ret.t)
       IN  IF fr.iter = <<>>
           THEN \E b \in built(apply_fn(fr.fun_name, acc)) :
                    /\ build' = b.build
                    /\ Return(b.r, "embeded_apply", [fr EXCEPT !.acc = acc],
                              Tail(stack))
           ELSE /\ CallEval(Head(fr.iter), "embeded_next",
                            [fr EXCEPT !.iter = Tail(@), !.acc = acc,
                                       !.evald = Append(@, Head(fr.iter))],
                            Tail(stack))
                /\ UNCHANGED build
    /\ UNCHANGED vartable

-----------------------------------------------------------------------------
(* CommonList<T>, the persistent list of util.rs, and its iterator.  A list *)
(* is the sequence of its elements, the head first; Nil is <<>>.           *)

None    == [k |-> "None"]
Some(v) == [k |-> "Some", v |-> v]

CommonList_new == <<>>

\* a cons that puts the element behind the last one
CommonList_cons_AtEnd(l, tp) == Append(l, tp)

CommonList_cons(l, tp) == <<tp>> \o l

CommonList_head(l) == IF l = <<>> THEN None ELSE Some(Head(l))

CommonList_tail(l) == IF l = <<>> THEN l ELSE Tail(l)

RECURSIVE CommonList_len(_)
CommonList_len(l) == IF l = <<>> THEN 0 ELSE CommonList_len(Tail(l)) + 1

\* a reverse_ that stops one element early
RECURSIVE CommonList_reverse__StopsEarly(_, _)
CommonList_reverse__StopsEarly(old, new) ==
    IF CommonList_tail(old) = <<>> /\ new # <<>> THEN new
    ELSE LET hd == CommonList_head(old)
         IN  IF hd = None THEN new
             ELSE CommonList_reverse__StopsEarly(CommonList_tail(old),
                                                 CommonList_cons(new, hd.v))

RECURSIVE CommonList_reverse_(_, _)
CommonList_reverse_(old, new) ==
    LET hd == CommonList_head(old)
    IN  IF hd = None THEN new
        ELSE CommonList_reverse_(CommonList_tail(old), CommonList_cons(new, hd.v))

CommonList_reverse(l) == CommonList_reverse_(l, CommonList_new)

\* an iterator whose item is the rest after the element, not the list at it
CommonListIterator_next_ItemIsRest(l) ==
    IF l = <<>> THEN [item |-> None, list |-> l]
    ELSE [item |-> Some(Tail(l)), list |-> Tail(l)]

\* CommonListIterator::next on an iterator at l: the item, and the iterator's
\* list afterwards
CommonListIterator_next(l) ==
    IF l = <<>> THEN [item |-> None, list |-> l]
    ELSE [item |-> Some(l), list |-> Tail(l)]

MaxLen == 3        \* the caller conses up to MaxLen elements

\* the elements of the lists of lisplist_tests
Elements == {EInt(32), EAtom(S_a), EList(<<>>)}

\* the record of a call on the list l with the argument v and the result r
Called(op, l, v, r) == [op |-> op, l |-> l, v |-> v, r |-> r]

NoIter == [k |-> "none"]

\* a call that returns o and leaves the list as it is (&self)
ListCall(o) ==
    /\ out' = o
    /\ UNCHANGED <<evars, build, first, pvars, clist, it, items>>

\* a list has been made and no iterator of it yet
Listing == pc = "list" /\ it = NoIter

\* let l = CommonList::new()
list_new ==
    /\ pc = "idle"
    /\ pc' = "list"
    /\ clist' = CommonList_new
    /\ out' = Called("new", <<>>, None, CommonList_new)
    /\ UNCHANGED <<vartable, exp, ret, stack, prog, ctx0, ncalls, last, build,
                   first, pvars, it, items>>

\* l.cons(&v)
list_cons(v) ==
    /\ Listing
    /\ CommonList_len(clist) < MaxLen
    /\ ListCall(Called("cons", clist, Some(v), CommonList_cons(clist, v)))

\* l.head()
list_head ==
    /\ Listing
    /\ ListCall(Called("head", clist, None, CommonList_head(clist)))

\* l.tail()
list_tail ==
    /\ Listing
    /\ ListCall(Called("tail", clist, None, CommonList_tail(clist)))

\* l.len()
list_len ==
    /\ Listing
    /\ ListCall(Called("len", clist, None, CommonList_len(clist)))

\* l.reverse()
list_reverse ==
    /\ Listing
    /\ ListCall(Called("reverse", clist, None, CommonList_reverse(clist)))

\* l = r, for the list r the last call returned
list_keep ==
    /\ Listing
    /\ out.op \in {"cons", "tail", "reverse"}
    /\ clist' = out.r
    /\ out' = Called("keep", clist, None, out.r)
    /\ UNCHANGED <<evars, build, first, pvars, it, items>>

\* l.clone().into_iter(), the first time and, after the first iteration has
\* ended, a second time; prev keeps the items of the first iteration
list_into_iter ==
    /\ pc = "list"
    /\ \/ it = NoIter
       \/ it.k = "iter" /\ it.n = 1 /\ it.ended
    /\ it' = [k |-> "iter", list |-> clist, of |-> clist,
              n |-> IF it = NoIter THEN 1 ELSE 2, ended |-> FALSE,
              prev |-> items]
    /\ items' = <<>>
    /\ out' = Called("into_iter", clist, None, clist)
    /\ UNCHANGED <<evars, build, first, pvars, clist>>

\* it.next(): a Some(item) is pushed to items, a None ends the iteration
iter_next ==
    /\ pc = "list"
    /\ it.k = "iter"
    /\ LET res == CommonListIterator_next(it.list)
       IN  /\ it' = [it EXCEPT !.list = res.list,
                               !.ended = (res.item = None)]
           /\ items' = IF res.item = None THEN items
                       ELSE Append(items, res.item.v)
    /\ UNCHANGED <<evars, build, first, pvars, clist, out>>

-----------------------------------------------------------------------------
(* Expression::try_from: the parser.  index counts from 0 as in the source; *)
(* a result is [r |-> the Result or the panic, index |-> the index left].  *)

\* char::from(c).is_ascii_digit()
is_ascii_digit(c) == c \in 48 .. 57

\* char::from(c).is_alphabetic(): char::from reads the byte as a character of
\* Latin-1, so these are the letters of ASCII and those of Latin-1
is_alphabetic(c) ==
    c \in (65 .. 90) \cup (97 .. 122) \cup {170, 181, 186} \cup (192 .. 214)
          \cup (216 .. 246) \cup (248 .. 255)

\* c == ')' || c == ' ' || c == '\n'
is_terminator(c) == c \in {41, 32, 10}

byte_at(bs, index_) == bs[index_ + 1]

\* &bytes[start..end]
slice(bs, start, end) == SubSeq(bs, start + 1, end)

\* std::str::from_utf8(s) is Ok
RECURSIVE from_utf8_is_ok(_)
from_utf8_is_ok(s) ==
    IF s = <<>> THEN TRUE
    ELSE LET c == s[1]
             n == Len(s)
             cont(j) == j <= n /\ s[j] \in 128 .. 191
         IN  IF c < 128 THEN from_utf8_is_ok(Tail(s))
             ELSE IF c \in 194 .. 223
                  THEN cont(2) /\ from_utf8_is_ok(SubSeq(s, 3, n))
             ELSE IF c \in 224 .. 239
                  THEN /\ cont(2) /\ cont(3)
                       /\ c = 224 => s[2] >= 160
                       /\ c = 237 => s[2] <= 159
                       /\ from_utf8_is_ok(SubSeq(s, 4, n))
             ELSE IF c \in 240 .. 244
                  THEN /\ cont(2) /\ cont(3) /\ cont(4)
                       /\ c = 240 => s[2] >= 144
                       /\ c = 244 => s[2] <= 143
                       /\ from_utf8_is_ok(SubSeq(s, 5, n))
             ELSE FALSE

Parsed(r, index_) == [r |-> r, index |-> index_]

\* the while loop of the int branch; checks: the build checks overflow
RECURSIVE try_from_int(_, _, _, _)
try_from_int(index_, bs, num, checks) ==
    IF index_ < Len(bs)
    THEN LET c == byte_at(bs, index_)
             d == c - 48
         IN  IF is_ascii_digit(c)
             THEN IF MulOverflows(num, 10) \/ AddOverflows(WrapMul(num, 10), d)
                  THEN IF checks THEN Parsed(Panic("overflow"), index_)
                       ELSE try_from_int(index_ + 1, bs,
                                         WrapAdd(WrapMul(num, 10), d), checks)
                  ELSE try_from_int(index_ + 1, bs, (num * 10) + d, checks)
             ELSE IF ~is_terminator(c)
                  THEN Parsed(Err("InvalidToken"), index_)
                  ELSE Parsed(Ok(EInt(num)), index_)
    ELSE Parsed(Ok(EInt(num)), index_)

\* the while loop of the atom branch: the index it stops at, or the error
RECURSIVE try_from_atom_end(_, _)
try_from_atom_end(index_, bs) ==
    IF index_ < Len(bs)
    THEN LET c == byte_at(bs, index_)
         IN  IF is_ascii_digit(c) \/ is_alphabetic(c)
             THEN try_from_atom_end(index_ + 1, bs)
             ELSE IF ~is_terminator(c)
                  THEN [ok |-> FALSE, index |-> index_]
                  ELSE [ok |-> TRUE, index |-> index_]
    ELSE [ok |-> TRUE, index |-> index_]

try_from_atom(start, bs) ==
    LET e == try_from_atom_end(start, bs)
    IN  IF ~e.ok THEN Parsed(Err("InvalidToken"), e.index)
        ELSE IF from_utf8_is_ok(slice(bs, start, e.index))
             THEN Parsed(Ok(EAtom(slice(bs, start, e.index))), e.index)
             ELSE Parsed(Err("Unexpected"), e.index)

\* the while loop of the var branch, counting the '*'
RECURSIVE try_from_var_end(_, _, _)
try_from_var_end(index_, bs, asta_count) ==
    IF index_ < Len(bs)
    THEN LET c == byte_at(bs, index_)
         IN  IF is_ascii_digit(c) \/ is_alphabetic(c) \/ c = 42
             THEN try_from_var_end(index_ + 1, bs,
                                   IF c = 42 THEN asta_count + 1 ELSE asta_count)
             ELSE IF ~is_terminator(c)
                  THEN [ok |-> FALSE, index |-> index_, asta_count |-> asta_count]
                  ELSE [ok |-> TRUE, index |-> index_, asta_count |-> asta_count]
    ELSE [ok |-> TRUE, index |-> index_, asta_count |-> asta_count]

try_from_var(start, bs) ==
    IF start + 1 >= Len(bs)
    THEN Parsed(Panic("index out of bounds"), start + 1)
    ELSE IF ~is_alphabetic(byte_at(bs, start + 1))
    THEN Parsed(Err("InvalidToken"), start + 1)
    ELSE LET e == try_from_var_end(start + 1, bs, 1)
         IN  IF ~e.ok THEN Parsed(Err("InvalidToken"), e.index)
             ELSE IF e.asta_count = 2 /\ byte_at(bs, e.index - 1) = 42
             THEN IF from_utf8_is_ok(slice(bs, start, e.index))
                  THEN Parsed(Ok(EVar(slice(bs, start, e.index))), e.index)
                  ELSE Parsed(Err("Unexpected"), e.index)
             ELSE Parsed(Err("InvalidToken"), e.index)

\* the while loop that skips ' ' and '\n'
RECURSIVE skip_spaces(_, _)
skip_spaces(index_, bs) ==
    IF index_ < Len(bs) /\ byte_at(bs, index_) \in {32, 10}
    THEN skip_spaces(index_ + 1, bs)
    ELSE index_

\* the loop of the list branch: list holds the elements parsed, last first
RECURSIVE try_from_(_, _, _), try_from_list(_, _, _, _)
\* the list branch returning the list as consed, without list.reverse()
try_from_list_NoReverse(index_, bs, list_, checks) ==
    LET i == skip_spaces(index_, bs)
    IN  IF i = Len(bs)
        THEN Parsed(Panic("occured unexpected error"), i)
        ELSE IF byte_at(bs, i) = 41
        THEN Parsed(Ok(EList(list_)), i + 1)
        ELSE LET result == try_from_(i, bs, checks)
             IN  IF result.r.k # "Ok" THEN result
                 ELSE try_from_list(result.index, bs, CommonList_cons(list_, result.r.t),
                                    checks)

try_from_list(index_, bs, list_, checks) ==
    LET i == skip_spaces(index_, bs)
    IN  IF i = Len(bs)
        THEN Parsed(Panic("occured unexpected error"), i)
        ELSE IF byte_at(bs, i) = 41
        THEN Parsed(Ok(EList(CommonList_reverse(list_))), i + 1)
        ELSE LET result == try_from_(i, bs, checks)
             IN  IF result.r.k # "Ok" THEN result
                 ELSE try_from_list(result.index, bs, CommonList_cons(list_, result.r.t),
                                    checks)

try_from_(index_, bs, checks) ==
    IF index_ >= Len(bs) THEN Parsed(Panic("index out of bounds"), index_)
    ELSE LET head_ch == byte_at(bs, index_)
         IN  IF head_ch = 40 THEN try_from_list(index_ + 1, bs, <<>>, checks)
             ELSE IF is_ascii_digit(head_ch)
                  THEN try_from_int(index_, bs, 0, checks)
             ELSE IF is_alphabetic(head_ch) THEN try_from_atom(index_, bs)
             ELSE IF head_ch = 42 THEN try_from_var(index_, bs)
             ELSE Parsed(Err("InvalidToken"), index_)

\* try_from without the comparison of index with bytes.len()
try_from_PrefixAccepted(bs, checks) == try_from_(0, bs, checks)

\* Expression::try_from(bytes)
try_from(bs, checks) ==
    LET res == try_from_(0, bs, checks)
    IN  IF res.r.k = "Panic" THEN res
        ELSE IF res.index # Len(bs) THEN Parsed(Err("InvalidToken"), res.index)
        ELSE res

-----------------------------------------------------------------------------
(* The texts parsed.                                                       *)

MaxText == 3       \* every text of up to MaxText bytes of Alphabet is parsed

\* ( ) space newline * 1 a # and the byte E9
Alphabet == {40, 41, 32, 10, 42, 49, 97, 35, 233}

\* the texts of n bytes of Alphabet
RECURSIVE TextsOf(_)
TextsOf(n) ==
    IF n = 0 THEN {<<>>}
    ELSE {Append(t, c) : t \in TextsOf(n - 1), c \in Alphabet}

ExampleTexts ==
    {<<49, 50, 51, 52, 53>>,   \* '12345'
     <<97, 116, 111, 109>>,   \* 'atom'
     <<97, 116, 111, 109, 49, 50, 51>>,   \* 'atom123'
     <<49, 50, 51, 97, 116, 111, 109>>,   \* '123atom'
     <<40, 32, 41>>,   \* '( )'
     <<40, 32, 40, 32, 41, 32, 41>>,   \* '( ( ) )'
     <<40, 97, 116, 111, 109, 32, 40, 32, 41, 32, 41>>,   \* '(atom ( ) )'
     <<42, 97, 98, 99, 100, 101, 102, 103, 42>>,   \* '*abcdefg*'
     <<97, 98, 99, 32, 100, 101, 102>>,   \* 'abc def'
     <<40, 97, 98, 99, 32, 100, 101, 102, 41, 32, 40, 41>>,   \* '(abc def) ()'
     <<97, 32>>,   \* 'a '
     <<40, 41>>,   \* '()'
     <<40, 97, 32, 40, 98, 41>>,   \* '(a (b)'
     <<40, 97, 32>>,   \* '(a '
     <<40, 97>>,   \* '(a'
     <<40>>,   \* '('
     <<42, 42>>,   \* '**'
     <<42, 49, 97, 42>>,   \* '*1a*'
     <<42, 97>>,   \* '*a'
     <<42, 97, 42, 98>>,   \* '*a*b'
     <<42, 97, 42, 42>>,   \* '*a**'
     <<42, 97, 42, 98, 42>>,   \* '*a*b*'
     <<42, 97, 42>>,   \* '*a*'
     <<42, 97, 49, 98, 42>>,   \* '*a1b*'
     <<42>>,   \* '*'
     <<40, 97, 32, 42>>,   \* '(a *'
     <<40, 42, 97, 42, 32, 42, 98, 49, 42, 41>>,   \* '(*a* *b1*)'
     <<42, 97, 42, 35>>,   \* '*a*#'
     <<40, 42, 97, 42, 41>>,   \* '(*a*)'
     <<50, 49, 52, 55, 52, 56, 51, 54, 52, 55>>,   \* '2147483647'
     <<50, 49, 52, 55, 52, 56, 51, 54, 52, 56>>,   \* '2147483648'
     <<40, 49, 50, 32, 48, 48, 49, 50, 41>>,   \* '(12 0012)'
     <<49, 50, 41>>,   \* '12)'
     <<49, 50, 32>>,   \* '12 '
     <<49, 35>>,   \* '1#'
     <<97, 35>>,   \* 'a#'
     <<97, 49, 98, 50, 32>>,   \* 'a1b2 '
     <<195, 169>>,   \* 'é'
     <<195, 170>>,   \* 'ê'
     <<40, 195, 170, 32, 49, 41>>,   \* '(ê 1)'
     <<40, 97, 100, 100, 32, 49, 32, 40, 109, 117, 108, 32, 50, 32, 51, 41, 41>>,   \* '(add 1 (mul 2 3))'
     <<40, 97, 40, 98, 41, 41>>,   \* '(a(b))'
     <<40, 40, 41, 40, 41, 41>>,   \* '(()())'
     <<40, 40, 97, 41, 98, 41>>,   \* '((a)b)'
     <<40, 10, 32, 97, 10, 10, 32, 98, 32, 41>>,   \* '(\\n a\\n\\n b )'
     <<233>>,   \* the byte E9 alone: no UTF-8
     <<233, 32>>,
     <<97, 233>>,
     <<42, 233, 42>>,
     <<50, 49, 52, 55, 52, 56, 51, 54, 52, 56, 32, 49>>}   \* '2147483648 1'

\* the decimal digits of n >= 0
RECURSIVE Digits(_)
Digits(n) == IF n < 10 THEN <<48 + n>> ELSE Append(Digits(n \div 10), 48 + (n % 10))

RECURSIVE Join(_, _)
Join(ts, gap) ==
    IF ts = <<>> THEN <<>>
    ELSE IF Len(ts) = 1 THEN ts[1]
    ELSE ts[1] \o gap \o Join(Tail(ts), gap)

\* e as written, with gap between the elements of a list and pad inside its
\* parentheses
RECURSIVE Written(_, _, _)
Written(e, gap, pad) ==
    CASE e.k = "Int"  -> Digits(e.i)
      [] e.k = "Atom" -> e.a
      [] e.k = "Var"  -> e.n
      [] e.k = "ExpressionList" ->
             <<40>> \o pad
             \o Join([j \in 1 .. Len(e.l) |-> Written(e.l[j], gap, pad)], gap)
             \o pad \o <<41>>

Leaves == {EInt(12), EAtom(S_ab), EVar(S_x)}

Lists(elems) ==
    {EList(<<>>)} \cup {EList(<<x>>) : x \in elems}
                  \cup {EList(<<x, y>>) : x \in elems, y \in elems}

\* the lists written
Forms ==
    Lists(Leaves \cup Lists(Leaves))
    \cup {EList(<<x, y, z>>) : x \in Leaves, y \in Leaves, z \in Leaves}
    \cup {EList(<<EList(<<EList(<<x>>)>>), x>>) : x \in Leaves}

Gaps == {<<32>>, <<10>>, <<32, 32>>, <<10, 32>>}
Pads == {<<>>, <<32>>}

\* every way a form is written, with the form
WrittenForms ==
    {<<Written(e, gap, pad), e>> : e \in Forms, gap \in Gaps, pad \in Pads}

Texts ==
    UNION {TextsOf(n) : n \in 0 .. MaxText} \cup ExampleTexts
        \cup {w[1] : w \in WrittenForms}

\* a caller parses one of the texts
parse ==
    /\ pc = "idle"
    /\ pc' = "parsed"
    /\ \E text \in Texts :
           \* the parse by a build with overflow checks and by one without
           \E both \in {<<try_from(text, TRUE), try_from(text, FALSE)>>} :
               \E checks \in BOOLEAN :
                   LET res == IF checks THEN both[1] ELSE both[2]
                   IN  /\ bytes' = text
                       /\ parsed' = res.r
                       /\ index' = res.index
                       /\ build' = IF both[1] = both[2] THEN build
                                   ELSE IF checks THEN "checked"
                                   ELSE "unchecked"
    /\ UNCHANGED <<vartable, exp, ret, stack, prog, ctx0, ncalls, last, first,
                   lvars>>

-----------------------------------------------------------------------------

Next ==
    \/ \E p \in Programs : eval(p)
    \/ \E p \in CtxPrograms : eval_with_context(p)
    \/ eval_same
    \/ eval_Int
    \/ eval_Atom
    \/ eval_Var
    \/ eval_Unexpected
    \/ eval_NonAtomHead
    \/ eval_NotFound
    \/ wloop_call
    \/ wloop_cond
    \/ wloop_loop
    \/ progn_call
    \/ progn_next
    \/ set_call
    \/ set_return
    \/ cond_call
    \/ cond_test
    \/ cond_return
    \/ embeded_call
    \/ embeded_next
    \/ try_Err
    \/ eval_done

Spec == Init /\ [][Next]_vars

\* nothing has been called yet
InitIdle == InitFresh /\ InitRest

\* the parser alone: a caller of Expression::try_from
NextParser == parse

SpecParser == InitIdle /\ [][NextParser]_vars

\* the list alone: a caller of CommonList and its iterator
NextList ==
    \/ list_new
    \/ \E v \in Elements : list_cons(v)
    \/ list_head
    \/ list_tail
    \/ list_len
    \/ list_reverse
    \/ list_keep
    \/ list_into_iter
    \/ iter_next

SpecList == InitIdle /\ [][NextList]_vars

-----------------------------------------------------------------------------
(* Properties.                                                             *)

State == [vartable |-> vartable, pc |-> pc, exp |-> exp, ret |-> ret,
          stack |-> stack, prog |-> prog, ctx0 |-> ctx0, ncalls |-> ncalls,
          last |-> last]

Frames == {stack[j] : j \in 1 .. Len(stack)}

\* the top-level call was eval(p) and has returned r
Evaluated(p, r) == (pc = "done" /\ prog = p /\ ctx0 = Context_new) => ret = r

\* C1: a (while C B) form of 2 elements whose condition evaluates to Int(0)
\* stops with the value Void, and so does the counting program whose last
\* form is the while.
C1_WhileIsVoid ==
    /\ (last.a = "wloop_return" /\ last.got = Ok(TInt(0))) => ret = Ok(TVoid)
    /\ \A n \in 0 .. MaxN : Evaluated(LoopProg(n), Ok(TVoid))

\* the counting programs the model runs, by their bound
CountBounds == (0 .. MaxN) \cup {r[1] : r \in LongRuns}

\* x = n (n - 1) / 2, decided within 32 bits
IsTri(n, x) ==
    IF n <= 1 THEN x = 0
    ELSE IF n % 2 = 0 THEN x % (n - 1) = 0 /\ x \div (n - 1) = n \div 2
    ELSE x % n = 0 /\ x \div n = (n - 1) \div 2

\* the loop of (while C B): C and B alternate, starting and ending with C
C2_Alternation ==
    /\ \A fr \in Frames :
           fr.f = "wloop" =>
               /\ fr.at = "cond" => fr.nc = fr.nb + 1
               /\ fr.at = "body" => fr.nc = fr.nb /\ fr.nb >= 1
    /\ last.a = "wloop_call" =>
           /\ exp = last.e.l[2]
           /\ Head(stack).cond = last.e.l[2]
           /\ Head(stack).body = last.e.l[3]
    /\ last.a = "wloop_body" =>
           /\ last.got.t.k = "Int" /\ last.got.t.i # 0
           /\ Head(stack).at = "body"
           /\ exp = Head(stack).body
    /\ last.a = "wloop_loop" =>
           /\ Head(stack).at = "cond"
           /\ exp = Head(stack).cond
    /\ last.a = "wloop_return" =>
           /\ last.fr.nc = last.fr.nb + 1
           /\ last.got.t.k = "Int" => last.got.t.i = 0 /\ ret.k = "Ok"
           /\ last.got.t.k # "Int" => ret = Err("TypeMismatch")

\* eval(CountProg(n)): at the head of the loop after k rounds *i* is k and
\* *a* is k (k - 1) / 2; the loop ends after n rounds; the call returns
\* Int(n (n - 1) / 2) with *i* bound to n.
C2_LoopHead(n) ==
    (last.a = "wloop_loop" /\ Len(stack) = 2) =>
        /\ vartable[S_i].i \in 1 .. n
        /\ State = [LoopHead(n, vartable[S_i].i) EXCEPT !.ncalls = ncalls]

C2_Counting(n) ==
    (prog = CountProg(n) /\ ctx0 = Context_new) =>
        /\ pc # "panic"
        /\ C2_LoopHead(n)
        /\ (last.a = "wloop_return" /\ Len(stack) = 1) =>
               /\ last.fr.nb = n
               /\ ret.k = "Ok"
        /\ pc = "done" =>
               /\ ret.k = "Ok" /\ ret.t.k = "Int" /\ IsTri(n, ret.t.i)
               /\ vartable[S_i] = TInt(n)

\* C2 as claimed: for every bound N >= 0.
C2_CountsForEveryN ==
    /\ C2_Alternation
    /\ \A n \in CountBounds : C2_Counting(n)

\* C2: (while C B) evaluates C and B alternately, starting with C, runs B
\* once for each nonzero Int that C yields, ends at the first Int(0) and
\* ends with TypeMismatch at a C that is no Int; the counting program
\* with a bound N of 0 .. 65536 ends after exactly N rounds of the body and
\* returns Int(N (N - 1) / 2) with *i* bound to N.
C2_WhileCounts ==
    /\ C2_Alternation
    /\ \A n \in CountBounds : n <= 65536 => C2_Counting(n)

C2_Witness ==
    /\ pc = "done"
    /\ prog = CountProg(65536)
    /\ ret = Ok(TInt(Tri(65536)))

-----------------------------------------------------------------------------
(* cond, set and Var                                                       *)

\* what a call of cond has had evaluated, by the point it has reached
CondFrame(fr) ==
    /\ fr.at = "cond" => fr.evald = <<fr.cond>>
    /\ fr.at = "ok" =>
           fr.evald = <<fr.cond, fr.ok>> /\ fr.r.k = "Int" /\ fr.r.i # 0
    /\ fr.at = "ng" => fr.evald = <<fr.cond, fr.ng>> /\ fr.r = TInt(0)

\* (cond (eq 1 0) (set *x* 1) 0)
CondEx == Call(S_cond, <<Call(S_eq, <<EInt(1), EInt(0)>>), SetX, EInt(0)>>)

\* C3: (cond C T F) of 3 elements evaluates C once and then exactly one
\* branch, F when C yields Int(0) and T when C yields a nonzero Int, and no
\* branch (TypeMismatch) when C yields no Int; another element count gives
\* BadArrity; the branch not chosen is not evaluated, so after
\* (cond (eq 1 0) (set *x* 1) 0) the variable *x* is unbound.
C3_CondOneBranch ==
    /\ \A fr \in Frames : fr.f = "cond" => CondFrame(fr)
    /\ last.fr.f = "cond" => CondFrame(last.fr)
    /\ last.a = "cond_BadArrity" =>
           Len(last.e.l) # 4 /\ ret = Err("BadArrity")
    /\ last.a = "cond_call" =>
           /\ Len(last.e.l) = 4
           /\ exp = last.e.l[2]
           /\ Head(stack).cond = last.e.l[2]
           /\ Head(stack).ok = last.e.l[3]
           /\ Head(stack).ng = last.e.l[4]
    /\ last.a = "cond_test" =>
           /\ last.got.t.k = "Int"
           /\ exp = IF last.got.t.i = 0 THEN Head(stack).ng ELSE Head(stack).ok
    /\ last.a = "cond_TypeMismatch" =>
           /\ last.fr.at = "cond"
           /\ last.got.t.k # "Int"
           /\ ret = Err("TypeMismatch")
    /\ last.a = "cond_return" =>
           last.fr.at \in {"ok", "ng"} /\ ret = last.got
    /\ (pc = "done" /\ ctx0 = Context_new) =>
           /\ prog = CondEx => ret = Ok(TInt(0)) /\ S_x \notin DOMAIN vartable
           /\ \A c \in ArgExprs :
                  prog = Call(S_cond, <<c, SetX, SetA>>) =>
                      IF c.k = "Int"
                      THEN IF c.i = 0
                           THEN ret = Ok(TInt(2)) /\ vartable = (S_va :> TInt(2))
                           ELSE ret = Ok(TInt(1)) /\ vartable = (S_x :> TInt(1))
                      ELSE ret = Err("TypeMismatch") /\ vartable = Context_new

C3_Witness ==
    /\ pc = "done"
    /\ prog = CondEx
    /\ ctx0 = Context_new
    /\ ret = Ok(TInt(0))
    /\ S_x \notin DOMAIN vartable

\* the value a Var reference yields in the Context table
Lookup(table, name) ==
    IF name \in DOMAIN table THEN Ok(table[name])
    ELSE Err("UndefinedVariableReference")

SetOfVar == last.a = "set_return" /\ last.fr.var.k = "Var"

SetBinds ==
    /\ SetOfVar =>
           /\ ret = last.got
           /\ last.fr.var.n \in DOMAIN vartable
           /\ vartable[last.fr.var.n] = last.got.t
    /\ (pc = "done" /\ ctx0 = Context_new) =>
           /\ prog = Call(S_progn, <<SetX, Set(S_x, EInt(2)), EVar(S_x)>>) =>
                  ret = Ok(TInt(2))
           /\ prog = Call(S_progn, <<Call(S_cond, <<EInt(1), Set(S_x, EInt(5)),
                                                   EInt(0)>>), EVar(S_x)>>) =>
                  ret = Ok(TInt(5))
    /\ (pc = "done" /\ prog = EVar(S_x)) => ret = Lookup(ctx0, S_x)

\* a step changes the Context only by a set of a Var, at that name only
SetOnly ==
    /\ (SetOfVar)' =>
           \A n \in (DOMAIN vartable \cup DOMAIN vartable') \ {last'.fr.var.n} :
               /\ n \in DOMAIN vartable
               /\ n \in DOMAIN vartable'
               /\ vartable'[n] = vartable[n]
    /\ (~(SetOfVar)' /\ last'.a \notin {"eval", "eval_same"})
           => vartable' = vartable
    /\ (last'.a = "eval_Var" /\ exp.n \in DOMAIN vartable) =>
           ret' = Ok(vartable[exp.n])

\* C4: (set V E) with V a Var evaluates E to v, binds the name of V to v in
\* the Context, changing no other name, and returns v; nothing else changes
\* the Context, neither the end of a form nor a later top-level evaluation on
\* the same Context, so every later reference to the name yields v until the
\* next set of that name.
C4_SetBindsUnscoped == [](SetBinds) /\ [][SetOnly]_vars

C4_Witness ==
    /\ SetOfVar
    /\ ncalls = 2
    /\ last.fr.var.n \in DOMAIN ctx0
    /\ ctx0[last.fr.var.n] # vartable[last.fr.var.n]

VarKeys ==
    /\ \A n \in DOMAIN vartable : n[1] = 42 /\ n[Len(n)] = 42
    /\ (pc = "done" /\ prog = EVar(S_x) /\ ctx0 = Context_new) =>
           ret = Err("UndefinedVariableReference")
    /\ (last.a = "eval_Var" /\ last.e.n = S_xbare) =>
           ret = Err("UndefinedVariableReference")

VarStep ==
    last'.a = "eval_Var" =>
        /\ exp.k = "Var"
        /\ ret' = Lookup(vartable, exp.n)
        /\ vartable' = vartable

\* C5: evaluating Var(name) returns the value bound to name in the Context,
\* the key being the whole token with both '*', and
\* UndefinedVariableReference when name is not bound (so for *x* in an empty
\* Context); the lookup leaves the Context unchanged.
C5_VarLookup == [](VarKeys) /\ [][VarStep]_vars

C5_Witness ==
    /\ last.a = "eval_Var"
    /\ last.e = EVar(S_x)
    /\ S_x \in DOMAIN vartable
    /\ ret = Ok(vartable[S_x])

-----------------------------------------------------------------------------
(* the evaluation of a list                                                *)

\* the call returns Err(e) at once: it evaluates nothing, the Context is kept
Rejected(e) ==
    /\ pc' = "ret"
    /\ ret' = Err(e)
    /\ stack' = stack
    /\ vartable' = vartable

HeadStep ==
    (pc = "eval" /\ exp.k = "ExpressionList") =>
        /\ exp.l = <<>> => Rejected("Unexpected")
        /\ (exp.l # <<>> /\ exp.l[1].k # "Atom") =>
               Rejected("EvaluatingNonAtomHeadList")
        /\ (/\ exp.l # <<>>
            /\ exp.l[1].k = "Atom"
            /\ exp.l[1].a \notin {S_cond, S_set, S_progn, S_while, S_add, S_sub,
                                  S_mul, S_div, S_list, S_head, S_tail, S_gt,
                                  S_lt, S_eq}) =>
               Rejected("NotFoundFunctionName")

HeadResults ==
    (pc = "done" /\ prog \in HeadProgs) =>
        /\ vartable = ctx0
        /\ prog = EList(<<EInt(1), EInt(2)>>) =>
               ret = Err("EvaluatingNonAtomHeadList")
        /\ prog = EList(<<>>) => ret = Err("Unexpected")
        /\ prog = Call(S_foo, <<SetX>>) => ret = Err("NotFoundFunctionName")

\* C6: the evaluation of a list looks at its head before it evaluates
\* anything: the empty list gives Unexpected, a head that is no Atom gives
\* EvaluatingNonAtomHeadList, a head Atom that is none of the 14 names gives
\* NotFoundFunctionName; no argument is evaluated and the Context is
\* unchanged.
C6_ListHead == [](HeadResults) /\ [][HeadStep]_vars

C6_Witness ==
    /\ last.a = "eval_NonAtomHead"
    /\ last.e = EList(<<EVar(S_x), SetX>>)
    /\ ret = Err("EvaluatingNonAtomHeadList")
    /\ S_x \notin DOMAIN vartable

\* the values of the arguments of a built-in, in the order of the arguments
ArgVals(fr) == [j \in 1 .. Len(fr.acc) |-> fr.acc[Len(fr.acc) + 1 - j]]

\* the built-in fun_name of names has been applied
Applied(names) == last.a = "embeded_apply" /\ last.fr.fun_name \in names

IsLit(e) == e.k \in {"Int", "Atom"}
LitVal(e) == IF e.k = "Int" THEN TInt(e.i) ELSE TAtom(e.a)

ArgsInOrder ==
    /\ \A fr \in Frames :
           fr.f = "embeded" =>
               /\ fr.evald \o fr.iter = fr.args
               /\ Len(fr.acc) + 1 = Len(fr.evald)
    /\ last.a \in {"embeded_call", "embeded_next"} =>
           exp = Head(stack).evald[Len(Head(stack).evald)]
    /\ last.a = "embeded_apply" =>
           LET fr == last.fr
               v  == ArgVals(fr)
           IN  /\ fr.evald = fr.args
               /\ Len(v) = Len(fr.args)
               /\ \A j \in 1 .. Len(v) :
                      IsLit(fr.args[j]) => v[j] = LitVal(fr.args[j])
               /\ ret \in embeded_fn_table(fr.fun_name, v)
    /\ (last.a = "try_Err" /\ last.fr.f = "embeded") =>
           /\ last.fr.evald \o last.fr.iter = last.fr.args
           /\ ret = last.got
    /\ (pc = "done" /\ ctx0 = Context_new) =>
           /\ prog = Call(S_add, <<SetX, EVar(S_x)>>) => ret = Ok(TInt(2))
           /\ prog = Call(S_add, <<EVar(S_x), SetX>>) =>
                  /\ ret = Err("UndefinedVariableReference")
                  /\ vartable = Context_new
           /\ prog = Call(S_list, <<SetX, Set(S_x, EInt(2)), EVar(S_x)>>) =>
                  ret = Ok(TList(<<TInt(1), TInt(2), TInt(2)>>))
           /\ prog = Call(S_list, <<SetX, Call(S_foo, <<>>), SetA>>) =>
                  /\ ret = Err("NotFoundFunctionName")
                  /\ vartable = (S_x :> TInt(1))
           /\ prog = Call(S_add, <<SetX>>) =>
                  ret = Err("BadArrity") /\ vartable = (S_x :> TInt(1))
           /\ prog = Call(S_cond, <<SetX>>) =>
                  ret = Err("BadArrity") /\ vartable = Context_new

\* a special form gets the list of its arguments as written: its call
\* returns BadArrity or has one of them evaluated
RawArgs ==
    (/\ pc = "eval"
     /\ exp.k = "ExpressionList"
     /\ exp.l # <<>>
     /\ exp.l[1].k = "Atom"
     /\ exp.l[1].a \in {S_cond, S_set, S_progn, S_while}) =>
        /\ vartable' = vartable
        /\ \/ pc' = "ret" /\ ret' = Err("BadArrity") /\ stack' = stack
           \/ /\ pc' = "eval"
              /\ \E j \in 2 .. Len(exp.l) : exp' = exp.l[j]
              /\ Tail(stack') = stack
              /\ Head(stack').f \in {"cond", "set", "progn", "wloop"}

\* C7: for a built-in every argument expression is evaluated exactly once,
\* from left to right, in the current Context, before the function is
\* applied to the values: (add (set *x* 1) *x*) is Int(2) and
\* (add *x* (set *x* 1)) is UndefinedVariableReference in a fresh Context;
\* a special form gets its arguments unevaluated.
C7_ArgumentOrder == [](ArgsInOrder) /\ [][RawArgs]_vars

C7_Witness ==
    /\ pc = "done"
    /\ ctx0 = Context_new
    /\ prog = Call(S_add, <<SetX, EVar(S_x)>>)
    /\ ret = Ok(TInt(2))

-----------------------------------------------------------------------------
(* the built-ins                                                           *)

\* a + b, a - b and a * b are in the range of i32
FitsSum(a, b) == IF b >= 0 THEN a <= MaxI32 - b ELSE a >= MinI32 - b
FitsDiff(a, b) == IF b >= 0 THEN a >= MinI32 + b ELSE a <= MaxI32 + b
FitsProd(a, b) ==
    IF a = 0 \/ b = 0 THEN TRUE
    ELSE IF a > 0 /\ b > 0 THEN a <= MaxI32 \div b
    ELSE IF a > 0 THEN b >= (MinI32 + (a - 1)) \div a
    ELSE IF b > 0 THEN a >= (MinI32 + (b - 1)) \div b
    ELSE a # MinI32 /\ b # MinI32 /\ (-a) <= MaxI32 \div (-b)

ArithApplied ==
    Applied({S_add, S_sub, S_mul, S_div}) =>
        LET v == ArgVals(last.fr)
            f == last.fr.fun_name
        IN  IF Len(v) # 2 THEN ret = Err("BadArrity")
            ELSE IF v[1].k # "Int" \/ v[2].k # "Int"
                 THEN ret = Err("TypeMismatch")
            ELSE LET a == v[1].i
                     b == v[2].i
                 IN  /\ (f = S_add /\ FitsSum(a, b)) => ret = Ok(TInt(a + b))
                     /\ (f = S_sub /\ FitsDiff(a, b)) => ret = Ok(TInt(a - b))
                     /\ (f = S_mul /\ FitsProd(a, b)) => ret = Ok(TInt(a * b))
                     /\ (f = S_div /\ b # 0 /\ ~(a = MinI32 /\ b = -1)) =>
                            ret = Ok(TInt(TruncDiv(a, b)))

ArithResults ==
    \A f \in {S_add, S_sub, S_mul, S_div} :
        /\ Evaluated(Call(f, <<EInt(1)>>), Err("BadArrity"))
        /\ Evaluated(Call(f, <<EAtom(S_a)>>), Err("BadArrity"))
        /\ Evaluated(Call(f, <<EAtom(S_a), EInt(1), EAtom(S_a)>>),
                     Err("BadArrity"))
        /\ Evaluated(Call(f, <<EInt(3), EAtom(S_a)>>), Err("TypeMismatch"))
        /\ Evaluated(Call(f, <<Call(S_list, <<>>), EInt(3)>>),
                     Err("TypeMismatch"))

DivResults ==
    /\ Evaluated(Call(S_div, <<EInt(-7), EInt(3)>>), Ok(TInt(-2)))
    /\ Evaluated(Call(S_div, <<EInt(3), EInt(-7)>>), Ok(TInt(0)))
    /\ Evaluated(Call(S_div, <<EInt(-7), EInt(-1)>>), Ok(TInt(7)))
    /\ Evaluated(Call(S_div, <<EInt(MaxI32), EInt(-7)>>), Ok(TInt(-306783378)))
    /\ Evaluated(Call(S_div, <<EInt(MinI32), EInt(3)>>), Ok(TInt(-715827882)))
    /\ Evaluated(Call(S_div, <<EInt(-7), EInt(MinI32)>>), Ok(TInt(0)))
    /\ Evaluated(Call(S_div, <<EInt(MaxI32), EInt(3)>>), Ok(TInt(715827882)))

\* (add (add (sub 1 2) 3) 4)
NestedAdd ==
    Call(S_add, <<Call(S_add, <<Call(S_sub, <<EInt(1), EInt(2)>>), EInt(3)>>),
                  EInt(4)>>)

\* C8: add, sub, mul and div return BadArrity unless they get exactly 2
\* values (whatever the types), TypeMismatch when one of the 2 is no Int,
\* and for a result in the range of i32 Int(a + b), Int(a - b), Int(a * b)
\* and Int(a / b) truncated toward zero; (add (add (sub 1 2) 3) 4) is Int(6).
C8_Arithmetic ==
    /\ ArithApplied
    /\ ArithResults
    /\ DivResults
    /\ Evaluated(NestedAdd, Ok(TInt(6)))

C8_Witness ==
    /\ Applied({S_div})
    /\ ArgVals(last.fr) = <<TInt(-7), TInt(3)>>
    /\ ret = Ok(TInt(-2))

\* s is before t in the order of the texts
LexLess(s, t) ==
    \E j \in 1 .. Len(t) :
        /\ \A i \in 1 .. (j - 1) : i <= Len(s) /\ s[i] = t[i]
        /\ j > Len(s) \/ s[j] < t[j]

SameType(v) ==
    \/ v[1].k = "Int" /\ v[2].k = "Int"
    \/ v[1].k = "Atom" /\ v[2].k = "Atom"

Before(x, y) == IF x.k = "Int" THEN x.i < y.i ELSE LexLess(x.a, y.a)

Bit(b) == Ok(TInt(IF b THEN 1 ELSE 0))

\* C9: gt, lt and eq return BadArrity unless they get exactly 2 values,
\* TypeMismatch unless both are Int or both are Atom, and else Int(1) or
\* Int(0) by the numeric order of Ints and the lexicographic order of the
\* texts of Atoms; of gt, lt and eq exactly one returns Int(1) for a pair of
\* one type, and eq returns Int(1) exactly for equal values.
C9_Comparison ==
    Applied({S_gt, S_lt, S_eq}) =>
        LET v == ArgVals(last.fr)
            f == last.fr.fun_name
        IN  IF Len(v) # 2 THEN ret = Err("BadArrity")
            ELSE IF ~SameType(v) THEN ret = Err("TypeMismatch")
            ELSE /\ f = S_gt => ret = Bit(Before(v[2], v[1]))
                 /\ f = S_lt => ret = Bit(Before(v[1], v[2]))
                 /\ f = S_eq => ret = Bit(v[1] = v[2])
                 /\ Cardinality({g \in {S_gt, S_lt, S_eq} :
                        embeded_fn_table(g, v) = {Bit(TRUE)}}) = 1
                 /\ \A g \in {S_gt, S_lt, S_eq} :
                        embeded_fn_table(g, v) \subseteq {Bit(TRUE), Bit(FALSE)}

C9_Witness ==
    /\ Applied({S_lt})
    /\ ArgVals(last.fr) = <<TAtom(S_a), TAtom(S_ab)>>
    /\ ret = Ok(TInt(1))

ListApplied ==
    /\ Applied({S_list}) =>
           /\ ret = Ok(TList(ArgVals(last.fr)))
           /\ Len(ret.t.l) = Len(last.fr.args)
           /\ \A j \in 1 .. Len(last.fr.args) :
                  IsLit(last.fr.args[j]) => ret.t.l[j] = LitVal(last.fr.args[j])
    /\ Applied({S_head, S_tail}) =>
           LET v == ArgVals(last.fr)
               f == last.fr.fun_name
           IN  IF Len(v) # 1 THEN ret = Err("BadArrity")
               ELSE IF v[1].k # "List" THEN ret = Err("TypeMismatch")
               ELSE LET l == v[1].l
                    IN  /\ f = S_head =>
                               ret = IF l = <<>> THEN Err("DoHeadForNil")
                                     ELSE Ok(l[1])
                        /\ f = S_tail =>
                               ret = Ok(TList(IF Len(l) <= 1 THEN <<>>
                                              ELSE SubSeq(l, 2, Len(l))))

ListResults ==
    /\ Evaluated(Call(S_list, <<>>), Ok(TList(<<>>)))
    /\ Evaluated(Call(S_head, <<Call(S_list, <<>>)>>), Err("DoHeadForNil"))
    /\ Evaluated(Call(S_tail, <<Call(S_list, <<>>)>>), Ok(TList(<<>>)))
    /\ \A x \in {e \in ArgExprs : IsLit(e)}, y \in {EInt(7), EAtom(S_b)} :
           LET three == Call(S_list, <<x, y, Call(S_list, <<x>>)>>)
           IN  /\ Evaluated(Call(S_head, <<three>>), Ok(LitVal(x)))
               /\ Evaluated(Call(S_tail, <<three>>),
                            Ok(TList(<<LitVal(y), TList(<<LitVal(x)>>)>>)))
               /\ Evaluated(Call(S_list, <<x>>), Ok(TList(<<LitVal(x)>>)))
               /\ Evaluated(Call(S_tail, <<Call(S_list, <<x>>)>>),
                            Ok(TList(<<>>)))

\* C10: (list e1 ... en) returns the list of the values of e1 .. en in that
\* order, the empty list for n = 0; head and tail return BadArrity unless
\* they get exactly 1 value and TypeMismatch unless it is a list; head
\* returns the first element, and DoHeadForNil for the empty list; tail
\* returns the list without its first element, and the empty list for a
\* list of 0 or 1 elements.
C10_ListHeadTail == ListApplied /\ ListResults

C10_Witness ==
    /\ pc = "done"
    /\ prog = Call(S_tail, <<Call(S_list, <<EInt(3), EAtom(S_b),
                                             Call(S_list, <<EInt(3)>>)>>)>>)
    /\ ret = Ok(TList(<<TAtom(S_b), TList(<<TInt(3)>>)>>))

-----------------------------------------------------------------------------
(* progn                                                                   *)

\* (progn (set *a* 10) (add *a* (add *a* 20)))
PrognEx ==
    Call(S_progn, <<Set(S_va, EInt(10)),
                    Call(S_add, <<EVar(S_va),
                                  Call(S_add, <<EVar(S_va), EInt(20)>>)>>)>>)

\* C11: (progn E1 ... En) with n >= 1 evaluates E1 .. En each once, in
\* that order, against the one Context, and returns the value of En; with
\* n = 0 it returns BadArrity; (progn (set *a* 10) (add *a* (add *a* 20)))
\* is Int(40).
C11_PrognInOrder ==
    /\ \A fr \in Frames :
           fr.f = "progn" => fr.evald \o fr.iter = fr.l /\ fr.evald # <<>>
    /\ last.a = "progn_BadArrity" =>
           Len(last.e.l) = 1 /\ ret = Err("BadArrity")
    /\ last.a = "progn_call" =>
           /\ Len(last.e.l) >= 2
           /\ Head(stack).l = Tail(last.e.l)
           /\ exp = last.e.l[2]
    /\ last.a = "progn_next" =>
           exp = Head(stack).evald[Len(Head(stack).evald)]
    /\ last.a = "progn_return" =>
           /\ last.fr.evald = last.fr.l
           /\ last.fr.iter = <<>>
           /\ ret = last.got
    /\ (pc = "done" /\ ctx0 = Context_new) =>
           /\ prog = PrognEx =>
                  ret = Ok(TInt(40)) /\ vartable = (S_va :> TInt(10))
           /\ prog = Call(S_progn, <<SetX, SetA, EVar(S_x)>>) =>
                  /\ ret = Ok(TInt(1))
                  /\ vartable = (S_x :> TInt(1)) @@ (S_va :> TInt(2))
           /\ prog = Call(S_progn, <<SetX, Set(S_x, EInt(2)), EVar(S_x)>>) =>
                  ret = Ok(TInt(2))
           /\ prog = Call(S_progn, <<EInt(1), EAtom(S_a)>>) =>
                  ret = Ok(TAtom(S_a))
           /\ prog = Call(S_progn, <<>>) => ret = Err("BadArrity")

C11_Witness ==
    /\ pc = "done"
    /\ ctx0 = Context_new
    /\ prog = PrognEx
    /\ ret = Ok(TInt(40))

-----------------------------------------------------------------------------
(* The parser.                                                             *)

\* the first form of bytes, as the build that ran parses it
FirstForm == try_from_(0, bytes, build # "unchecked")

\* the parse of bytes has returned to its caller
ParseReturned == pc = "parsed" /\ parsed.k # "Panic"

\* C12: a parse succeeds only with the first form ending at the end of the
\* input, its value the form's; when bytes remain after the first complete
\* form (a trailing space, a second atom, a second list) the result is
\* Err(InvalidToken).
C12_WholeInput ==
    ParseReturned =>
        /\ parsed.k = "Ok" => FirstForm.r = parsed /\ FirstForm.index = Len(bytes)
        /\ index # Len(bytes) => parsed = Err("InvalidToken")
        /\ (FirstForm.r.k = "Ok" /\ FirstForm.index < Len(bytes))
               => parsed = Err("InvalidToken")
        /\ bytes \in {<<97, 98, 99, 32, 100, 101, 102>>,
                      <<40, 97, 98, 99, 32, 100, 101, 102, 41, 32, 40, 41>>,
                      <<97, 32>>, <<40, 41, 10>>, <<49, 32, 49>>}
               => parsed = Err("InvalidToken")

\* "(abc def) ()" has been parsed: a list, then bytes left
C12_Witness ==
    /\ ParseReturned
    /\ bytes = <<40, 97, 98, 99, 32, 100, 101, 102, 41, 32, 40, 41>>
    /\ FirstForm.r = Ok(EList(<<EAtom(<<97, 98, 99>>), EAtom(<<100, 101, 102>>)>>))
    /\ FirstForm.index = 9
    /\ parsed = Err("InvalidToken")

\* texts that end inside a list: "(", "(a", "(a (b)", "(a "
UnclosedTexts ==
    {<<40>>, <<40, 97>>, <<40, 97, 32, 40, 98, 41>>, <<40, 97, 32>>}

\* C13: when the input ends inside an unclosed list the parse returns
\* Err(InvalidToken) to its caller; it does not crash.
C13_UnclosedListIsError ==
    (pc = "parsed" /\ bytes \in UnclosedTexts) => parsed = Err("InvalidToken")

\* bs is one token: no byte of it ends a token
OneToken(bs) == bs # <<>> /\ \A j \in 1 .. Len(bs) : ~is_terminator(bs[j])

is_alphanumeric(c) == is_ascii_digit(c) \/ is_alphabetic(c)

\* '*', an alphabetic character, alphanumerics, a final '*'
VarShape(bs) ==
    /\ Len(bs) >= 3
    /\ bs[1] = 42
    /\ is_alphabetic(bs[2])
    /\ \A j \in 3 .. Len(bs) - 1 : is_alphanumeric(bs[j])
    /\ bs[Len(bs)] = 42

\* C14: a token that starts with '*' parses to Var of the whole token when
\* it is '*', an alphabetic character, alphanumerics and a final '*', and
\* every other token that starts with '*' gives InvalidToken.
C14_VarToken ==
    (pc = "parsed" /\ OneToken(bytes) /\ bytes[1] = 42) =>
        parsed = IF VarShape(bytes) THEN Ok(EVar(bytes)) ELSE Err("InvalidToken")

\* the base-10 value of the digits bs, -1 when it does not fit the i32
RECURSIVE Decimal(_)
Decimal(bs) ==
    IF bs = <<>> THEN 0
    ELSE LET front == Decimal(SubSeq(bs, 1, Len(bs) - 1))
             d == bs[Len(bs)] - 48
         IN  IF front < 0 \/ front > (MaxI32 - d) \div 10 THEN -1
             ELSE front * 10 + d

\* C15: a token of ASCII digits whose value fits the i32 parses to Int of
\* its base-10 value, a token of an alphabetic character and alphanumerics
\* to Atom of exactly its text, and a token that starts with a digit or an
\* alphabetic character and has any other character gives InvalidToken.
C15_IntAndAtomTokens ==
    (pc = "parsed" /\ OneToken(bytes)) =>
        /\ ((\A j \in 1 .. Len(bytes) : is_ascii_digit(bytes[j]))
                /\ Decimal(bytes) >= 0)
               => parsed = Ok(EInt(Decimal(bytes)))
        /\ (is_alphabetic(bytes[1])
                /\ \A j \in 2 .. Len(bytes) : is_alphanumeric(bytes[j]))
               => parsed = Ok(EAtom(bytes))
        /\ (is_alphanumeric(bytes[1])
                /\ \E j \in 2 .. Len(bytes) : ~is_alphanumeric(bytes[j]))
               => parsed = Err("InvalidToken")
        /\ bytes = <<49, 50, 51, 97, 116, 111, 109>>
               => parsed = Err("InvalidToken")
        /\ bytes = <<97, 116, 111, 109, 49, 50, 51>> => parsed = Ok(EAtom(bytes))
        /\ bytes = <<195, 169>> => parsed = Ok(EAtom(bytes))   \* U+00E9

\* C16: every list written with its elements in order, whatever the runs of
\* spaces and newlines between them and inside the parentheses, parses to
\* the ExpressionList of the parses of its elements, in the same order and
\* with the same nesting and count; "()" and "( )" give the Nil list and
\* "( ( ) )" a list of one element, the Nil list.
C16_ListStructure ==
    pc = "parsed" =>
        /\ \A w \in WrittenForms : w[1] = bytes => parsed = Ok(w[2])
        /\ bytes \in {<<40, 41>>, <<40, 32, 41>>} => parsed = Ok(EList(<<>>))
        /\ bytes = <<40, 32, 40, 32, 41, 32, 41>>
               => parsed = Ok(EList(<<EList(<<>>)>>))
        /\ (parsed.k = "Ok" /\ bytes[1] = 40) => parsed.t.k = "ExpressionList"

\* "( 12\n ( ab\n *x* ) )" has been parsed
C16_Witness ==
    LET e == EList(<<EInt(12), EList(<<EAtom(S_ab), EVar(S_x)>>)>>)
    IN  /\ pc = "parsed"
        /\ bytes = Written(e, <<10, 32>>, <<32>>)
        /\ Len(bytes) = 19
        /\ parsed = Ok(e)

-----------------------------------------------------------------------------
(* The persistent list.                                                    *)

\* the call op has returned
After(op) == pc = "list" /\ out.op = op

\* C17: new() is Nil; head(Nil) is None and tail(Nil) is Nil; for the list
\* l.cons(v), head is Some(v), tail is l and len is len(l) + 1, with
\* len(Nil) = 0; and the list a cons, head, tail or len was called on is
\* afterwards the list it was before.
C17_PersistentList ==
    /\ After("new") => out.r = <<>> /\ clist = <<>>
    /\ After("head") =>
           /\ out.l = <<>> => out.r = None
           /\ out.l # <<>> => out.r = Some(out.l[1])
    /\ After("tail") =>
           /\ out.l = <<>> => out.r = <<>>
           /\ out.l # <<>> => out.r = SubSeq(out.l, 2, Len(out.l))
    /\ After("len") =>
           /\ out.r = Len(out.l)
           /\ out.l = <<>> => out.r = 0
    /\ After("cons") =>
           /\ CommonList_head(out.r) = out.v
           /\ CommonList_tail(out.r) = out.l
           /\ CommonList_len(out.r) = CommonList_len(out.l) + 1
    /\ (pc = "list" /\ out.op \in {"cons", "head", "tail", "len"})
           => clist = out.l

\* a third element has been consed to a list of two
C17_Witness ==
    /\ After("cons")
    /\ clist = <<EAtom(S_a), EInt(32)>>
    /\ out.v = Some(EList(<<>>))
    /\ out.r = <<EList(<<>>), EAtom(S_a), EInt(32)>>

\* C18: reverse(l) has the length of l and at each place i the element l has
\* at len - 1 - i; reverse(reverse(l)) is l, reverse(Nil) is Nil, and l is
\* afterwards the list it was before.
C18_Reverse ==
    After("reverse") =>
        /\ Len(out.r) = Len(out.l)
        /\ \A i \in 0 .. Len(out.l) - 1 :
               out.r[i + 1] = out.l[((Len(out.l) - 1) - i) + 1]
        /\ CommonList_reverse(out.r) = out.l
        /\ out.l = <<>> => out.r = <<>>
        /\ clist = out.l

\* a list of three different elements has been reversed
C18_Witness ==
    /\ After("reverse")
    /\ out.l = <<EList(<<>>), EAtom(S_a), EInt(32)>>
    /\ out.r = <<EInt(32), EAtom(S_a), EList(<<>>)>>

\* the list from its k-th element on
Suffix(l, k) == SubSeq(l, k, Len(l))

\* C19: an iteration over a list of n elements gives n items and then ends;
\* the k-th item is the list from its k-th element on, the first the whole
\* list, and none is Nil; the list is afterwards the list it was before,
\* and a second iteration gives the items of the first.
C19_Iteration ==
    (pc = "list" /\ it.k = "iter") =>
        /\ Len(items) <= Len(it.of)
        /\ \A k \in 1 .. Len(items) :
               items[k] = Suffix(it.of, k) /\ items[k] # <<>>
        /\ it.ended => Len(items) = Len(it.of)
        /\ (~it.ended /\ Len(items) = Len(it.of))
               => CommonListIterator_next(it.list).item = None
        /\ Len(items) < Len(it.of)
               => CommonListIterator_next(it.list).item # None
        /\ clist = it.of
        /\ (it.n = 2 /\ it.ended) => items = it.prev

\* a list of three elements has been iterated over twice
C19_Witness ==
    /\ pc = "list"
    /\ it.k = "iter"
    /\ it.n = 2
    /\ it.ended
    /\ Len(clist) = 3
    /\ items = <<clist, Tail(clist), Tail(Tail(clist))>>

-----------------------------------------------------------------------------
(* Determinism.                                                            *)

\* the program has been evaluated a second time, in a second fresh Context:
\* the evaluation has returned or has panicked
EvaluatedAgain == pc \in {"done", "panic"} /\ first.k = "first"

C20_WitnessOverflow ==
    /\ EvaluatedAgain
    /\ build = "unchecked"
    /\ ret.k = "Ok"

-----------------------------------------------------------------------------
(* The Context.                                                            *)

\* e has a set form at some depth
RECURSIVE HasSet(_)
HasSet(e) ==
    /\ e.k = "ExpressionList"
    /\ \/ e.l # <<>> /\ e.l[1] = EAtom(S_set)
       \/ \E j \in 1 .. Len(e.l) : HasSet(e.l[j])

\* table with name bound to v and every other name as it was
Inserted(table, name, v) ==
    [n \in DOMAIN table \cup {name} |-> IF n = name THEN v ELSE table[n]]

\* eval starts on an empty Context
StartsEmpty ==
    last.a \in {"eval", "eval_same"} =>
        vartable = Context_new /\ ctx0 = Context_new

\* during and after the evaluation of an expression without a set form the
\* Context is the one the top-level call received
NoSetKeeps == ~HasSet(prog) => vartable = ctx0

\* a step that changes the Context is the insert of one set call, or the
\* start of an eval on its new Context
OnlySetChanges ==
    vartable' # vartable =>
        \/ last'.a \in {"eval", "eval_same"}
        \/ /\ last'.a = "set_return"
           /\ last'.fr.var.k = "Var"
           /\ ret'.k = "Ok"
           /\ vartable' = Inserted(vartable, last'.fr.var.n, ret'.t)

\* C21: the Context of a top-level eval starts empty and is changed only by
\* set: the evaluation of an expression with no set form at any depth,
\* whether it succeeds or fails, leaves the Context as it was, and every
\* change of the Context during an evaluation is the insert of one set call.
C21_ContextOnlySet ==
    [](StartsEmpty /\ NoSetKeeps) /\ [][OnlySetChanges]_vars

\* an expression without a set has failed on a Context with bindings
C21_Witness ==
    /\ pc = "done"
    /\ ~HasSet(prog)
    /\ ret.k = "Err"
    /\ ctx0 # Context_new
    /\ vartable = ctx0

\* an expression without a set has succeeded on a Context with bindings
C21_WitnessOk ==
    /\ pc = "done"
    /\ ~HasSet(prog)
    /\ prog.k = "ExpressionList"
    /\ ret.k = "Ok"
    /\ ctx0 # Context_new
    /\ vartable = ctx0

-----------------------------------------------------------------------------
(* Errors.                                                                 *)

\* a call has returned an Err to the call that waits for it, or to the
\* top-level caller
Failed == pc = "ret" /\ ret.k = "Err"

\* the step after an Err hands the same Err to the next enclosing call, or
\* to the top-level caller, and evaluates and binds nothing
Propagates ==
    Failed =>
        /\ ret' = ret
        /\ vartable' = vartable
        /\ IF stack = <<>> THEN pc' = "done" /\ stack' = stack
           ELSE pc' = "ret" /\ stack' = Tail(stack)

\* (progn (set *x* 1) (while *x* (progn (set *x* a) (set *a* 2))))
FailsInSecondRound ==
    Call(S_progn, <<SetX, Call(S_while, <<EVar(S_x),
                             Call(S_progn, <<Set(S_x, EAtom(S_a)), SetA>>)>>)>>)

\* what the top-level call eval(p) ends with: the Result and the Context
EndsWith(p, r, table) ==
    (pc = "done" /\ prog = p /\ ctx0 = Context_new) =>
        ret = r /\ vartable = table

FirstErrorExamples ==
    /\ EndsWith(Call(S_progn, <<SetX, Call(S_foo, <<>>), SetA>>),
                Err("NotFoundFunctionName"), S_x :> TInt(1))
    /\ EndsWith(Call(S_list, <<SetX, Call(S_foo, <<>>), SetA>>),
                Err("NotFoundFunctionName"), S_x :> TInt(1))
    /\ EndsWith(Call(S_progn, <<SetX, Call(S_while, <<EVar(S_x),
                                                     Call(S_foo, <<>>)>>)>>),
                Err("NotFoundFunctionName"), S_x :> TInt(1))
    /\ EndsWith(FailsInSecondRound, Err("TypeMismatch"),
                (S_x :> TAtom(S_a)) @@ (S_va :> TInt(2)))
    /\ EndsWith(Call(S_cond, <<Call(S_foo, <<>>), SetX, SetA>>),
                Err("NotFoundFunctionName"), Context_new)
    /\ EndsWith(Call(S_add, <<EVar(S_x), SetX>>),
                Err("UndefinedVariableReference"), Context_new)

\* C22: the first error is terminal: after a sub-expression has failed no
\* later sub-expression is evaluated (no later argument, progn form, loop
\* round or cond branch), every enclosing form returns that same error up
\* to the top-level caller, and the Context keeps exactly the bindings made
\* before the failure.
C22_FirstErrorTerminal == [](FirstErrorExamples) /\ [][Propagates]_vars

\* (progn (set *x* 1) (foo) (set *a* 2)) has failed at its second form
C22_Witness ==
    /\ pc = "done"
    /\ prog = Call(S_progn, <<SetX, Call(S_foo, <<>>), SetA>>)
    /\ ctx0 = Context_new
    /\ ret = Err("NotFoundFunctionName")
    /\ vartable = (S_x :> TInt(1))

-----------------------------------------------------------------------------
(* set of what is no Var.                                                  *)

\* what is no Var: an Int, an Atom, a list
NonVars == {EInt(5), EAtom(S_xbare), EList(<<>>)}

\* set with another count than 2 returns BadArrity and evaluates nothing
SetBadArrity ==
    /\ last.a = "set_BadArrity" =>
           Len(last.e.l) # 3 /\ ret = Err("BadArrity")
    /\ \A a \in {<<>>, <<EVar(S_x)>>, <<SetX>>,
                 <<EVar(S_x), EInt(1), EInt(2)>>,
                 <<EVar(S_x), SetA, Call(S_foo, <<>>)>>} :
           EndsWith(Call(S_set, a), Err("BadArrity"), Context_new)

\* C23 as written: a set of 2 elements whose first is no Var returns
\* TypeMismatch whatever the second is and does not evaluate it: no error of
\* it replaces the TypeMismatch and no set nested in it alters the Context.
C23_SetRejectsUnevaluated ==
    /\ \A fr \in Frames : fr.f = "set" => fr.var.k = "Var"
    /\ \A v \in NonVars, e \in {EInt(1), SetX, Call(S_foo, <<>>)} :
           EndsWith(Call(S_set, <<v, e>>), Err("TypeMismatch"), Context_new)
    /\ SetBadArrity

\* C23: a set of 2 elements evaluates the second whatever the first is;
\* when the first is no Var, set returns the error of the second if that
\* fails and TypeMismatch otherwise, binds nothing itself, and the bindings
\* of the sets nested in the second stay.  With any other count of elements
\* set returns BadArrity without evaluating anything.
C23_SetRejectsEvaluated ==
    /\ last.a = "set_call" => Len(last.e.l) = 3 /\ exp = last.e.l[3]
    /\ (last.a = "set_return" /\ last.fr.var.k # "Var") =>
           last.got.k = "Ok" /\ ret = Err("TypeMismatch")
    /\ (last.a = "try_Err" /\ last.fr.f = "set") => ret = last.got
    /\ \A v \in NonVars :
           /\ EndsWith(Call(S_set, <<v, EInt(1)>>), Err("TypeMismatch"),
                       Context_new)
           /\ EndsWith(Call(S_set, <<v, SetX>>), Err("TypeMismatch"),
                       S_x :> TInt(1))
           /\ EndsWith(Call(S_set, <<v, Call(S_foo, <<>>)>>),
                       Err("NotFoundFunctionName"), Context_new)
    /\ SetBadArrity

\* (set 5 (set *x* 1)) has returned TypeMismatch with *x* bound
C23_Witness ==
    /\ pc = "done"
    /\ prog = Call(S_set, <<EInt(5), SetX>>)
    /\ ctx0 = Context_new
    /\ ret = Err("TypeMismatch")
    /\ vartable = (S_x :> TInt(1))

-----------------------------------------------------------------------------
(* Arithmetic the i32 does not hold.                                       *)

\* the evaluation of the program has ended: it has returned or has panicked
Ended(p) == pc \in {"done", "panic"} /\ prog = p /\ ctx0 = Context_new

\* add, sub, mul or div has been applied to the Ints a and b
ArithOnInts ==
    /\ Applied({S_add, S_sub, S_mul, S_div})
    /\ Len(last.fr.acc) = 2
    /\ \A j \in 1 .. 2 : last.fr.acc[j].k = "Int"

\* C24: add, sub, mul and div on two Ints never return an EvalError: a zero
\* divisor and a result outside the i32 are left to the arithmetic of the
\* host, so (div a 0) ends in a panic, with neither an Ok nor an Err, and an
\* overflow in a panic or in the wrapped value by the build.
C24_ArithmeticUnguarded ==
    /\ ArithOnInts =>
           LET a == ArgVals(last.fr)[1].i
               b == ArgVals(last.fr)[2].i
               f == last.fr.fun_name
           IN  /\ ret.k \in {"Ok", "Panic"}
               /\ (ret.k = "Panic") = (pc = "panic")
               /\ (f = S_div /\ b = 0) => ret = Panic("divide by zero")
               /\ (f = S_div /\ a = MinI32 /\ b = -1) => ret.k = "Panic"
               /\ (\/ f = S_add /\ ~FitsSum(a, b)
                   \/ f = S_sub /\ ~FitsDiff(a, b)
                   \/ f = S_mul /\ ~FitsProd(a, b))
                      => /\ build # "any"
                         /\ (ret.k = "Panic") = (build = "checked")
               /\ ret.k = "Panic" =>
                      \/ f = S_div /\ (b = 0 \/ (a = MinI32 /\ b = -1))
                      \/ f = S_add /\ ~FitsSum(a, b)
                      \/ f = S_sub /\ ~FitsDiff(a, b)
                      \/ f = S_mul /\ ~FitsProd(a, b)
    /\ \A a \in IntLits : Ended(Call(S_div, <<EInt(a), EInt(0)>>)) => pc = "panic"
    /\ Ended(Call(S_div, <<EInt(MinI32), EInt(-1)>>)) => pc = "panic"
    /\ Ended(Call(S_sub, <<EInt(MaxI32), EInt(-1)>>)) =>
           ret \in {Panic("overflow"), Ok(TInt(MinI32))}
    /\ Ended(Call(S_add, <<EInt(MaxI32), EInt(3)>>)) =>
           ret \in {Panic("overflow"), Ok(TInt(MinI32 + 2))}

\* (div 3 0) has ended in a panic
C24_Witness ==
    /\ Ended(Call(S_div, <<EInt(3), EInt(0)>>))
    /\ ArithOnInts
    /\ pc = "panic"
    /\ ret = Panic("divide by zero")

\* an addition has wrapped
C24_WitnessWrapped ==
    /\ Ended(Call(S_add, <<EInt(MaxI32), EInt(3)>>))
    /\ ret = Ok(TInt(MinI32 + 2))
    /\ build = "unchecked"

-----------------------------------------------------------------------------
(* The parse of any text.                                                  *)

\* C25: parse is total: of every text, the empty one, "*", "(*" and a number
\* beyond the i32 included, it returns Ok(Expression) or an Err and never
\* reads past the end of the text or panics.
C25_ParseIsTotal == pc = "parsed" => parsed.k \in {"Ok", "Err"}

\* the parse of the empty text returns
C25_EmptyReturns == (pc = "parsed" /\ bytes = <<>>) => parsed.k \in {"Ok", "Err"}

\* the parse of "*" and of "(*" returns
C25_LoneStarReturns ==
    (pc = "parsed" /\ bytes \in {<<42>>, <<40, 42>>}) => parsed.k \in {"Ok", "Err"}

\* the parse of "2147483648" returns
C25_LargeNumberReturns ==
    (pc = "parsed" /\ bytes = <<50, 49, 52, 55, 52, 56, 51, 54, 52, 56>>)
        => parsed.k \in {"Ok", "Err"}

====
